---- MODULE Spec2Model ----
(***************************************************************************)
(* Motor-insurance claim adjudication: deterministic pre-validation, the   *)
(* two LLM evidence passes and their merge (llm_validation_agent), the     *)
(* fraud scorer (fraud_agent), the manager's decision state machine        *)
(* (ManagerAgent.finalize_claim), the claim graph and the processing tool. *)
(*                                                                         *)
(* Scores, confidences and thresholds are integers in thousandths          *)
(* (0.70 is 700).  Free text is represented by the features the code       *)
(* extracts from it (markers present, non-empty blocks, parsed dates,      *)
(* number of registration tokens, keyword hits).                           *)
(***************************************************************************)
EXTENDS Integers, Sequences, FiniteSets, Bags, TLC

VARIABLES
    facts,   \* the claim's input facts (ClaimFacts), as extracted features
    state,   \* the in-memory ClaimState the agents work on
    db,      \* the persisted row of the claims table
    pc,      \* position of the run in progress
    op,      \* the operation that made the last step
    io       \* what the last operation consumed and produced on the way

vars == <<facts, state, db, pc, op, io>>

(***************************************************************************)
(* Optional values: None or Some(v).                                       *)
(***************************************************************************)
None == <<>>
Some(v) == <<v>>
Val(o) == o[1]

\* Python's None / "" for the string-typed fields
NoStr == ""

Max2(a, b) == IF a >= b THEN a ELSE b

(***************************************************************************)
(* Fixed vocabularies                                                      *)
(***************************************************************************)
Labels == {"FIR", "DRIVING_LICENSE", "RC_BOOK", "POLICY_COPY",
           "REPAIR_ESTIMATE", "ACCIDENT_PHOTOS"}

E_DL     == "Driving License invalid/expired"
E_POLICY == "Policy expired or not covering OD"
E_VEH    == "RC/Policy/FIR vehicle mismatch"
E_NARR   == "Claim narrative inconsistent with FIR"
E_FAKE   == "Fake or unverifiable repair estimate"
E_FIR    == "FIR not found"
E_NONMOTOR == "Non-motor claim type or missing claim_type"
E_TEXT_ONLY_FAILED == "LLM_TEXT_ONLY_CALL_FAILED"
E_CALL_FAILED == "LLM_CALL_FAILED"
E_AI_FAILED == "AI_VALIDATION_FAILED"

W_DL_UNCLEAR  == "Driving License details unclear"
W_POL_UNCLEAR == "Policy details unclear"
W_POL_PERIOD  == "Policy validity period not clearly parsed"
W_POL_COVER   == "Policy coverage type not clearly identified (OD/Comprehensive)"
W_NAME        == "Customer name mismatch between registration and documents"
W_EST_HIGH    == "Unusually high repair estimate for minor damage"
W_EST_INFL    == "Repair estimate appears inflated for moderate impact"
W_PHOTOS      == "Photos suggest minor damage but estimate lists major replacements"
W_EST_MISSING == "Repair estimate not provided or unclear"

Recommendations == {"APPROVE", "NEED_MORE_DOCUMENTS", "REJECT"}
Decisions == {"PENDING_DOCUMENTS", "REJECTED", "ESCALATED_TO_SIU", "APPROVED"}
FraudDecisions == {"SAFE", "MODERATE", "SUSPECT"}

\* str.upper() on the strings that occur as recommendations and decisions
Upper(s) ==
    CASE s = "approve" -> "APPROVE"
      [] s = "reject" -> "REJECT"
      [] s = "need_more_documents" -> "NEED_MORE_DOCUMENTS"
      [] s = "suspect" -> "SUSPECT"
      [] s = "safe" -> "SAFE"
      [] s = "moderate" -> "MODERATE"
      [] s = "maybe" -> "MAYBE"
      [] s = "approved" -> "APPROVED"
      [] s = "rejected" -> "REJECTED"
      [] s = "pending_documents" -> "PENDING_DOCUMENTS"
      [] s = "escalated_to_siu" -> "ESCALATED_TO_SIU"
      [] s = "motor" -> "MOTOR"
      [] s = "health" -> "HEALTH"
      [] OTHER -> s

\* strip() then lower() on the strings that occur as claim types and on the
\* spellings of the repair-estimate warning
LowerStrip(s) ==
    CASE s = "motor  " -> "motor"
      [] s = "Motor" -> "motor"
      [] s = "MOTOR" -> "motor"
      [] s = "Health" -> "health"
      [] s = "  " -> ""
      [] s = "Repair estimate not provided or unclear"
            -> "repair estimate not provided or unclear"
      [] s = " Repair estimate not provided or unclear "
            -> "repair estimate not provided or unclear"
      [] OTHER -> s

(***************************************************************************)
(* ClaimState and ValidationResult                                         *)
(***************************************************************************)
ValidationResult(missing, warnings, errors, docs_ok, note, rec) ==
    [required_missing |-> missing, warnings |-> warnings, errors |-> errors,
     docs_ok |-> docs_ok, note |-> note, recommendation |-> rec]

\* A ClaimState as constructed, before any agent has run
NewClaimState(claim_type) ==
    [claim_type |-> claim_type,
     claim_registered |-> FALSE,
     validation |-> None,
     claim_validated |-> FALSE,
     fraud_checked |-> FALSE,
     fraud_score |-> None,
     fraud_decision |-> NoStr,
     final_decision |-> NoStr,
     claim_decision_made |-> FALSE,
     assignment |-> None]

(***************************************************************************)
(* ManagerAgent.finalize_claim                                             *)
(***************************************************************************)
FRAUD_ESCALATION == 700

\* validation.recommendation, upper-cased, "" when there is no validation
RecOf(st) ==
    IF st.validation = None THEN NoStr
    ELSE Upper(Val(st.validation).recommendation)

DocsOkOf(st) == IF st.validation = None THEN FALSE ELSE Val(st.validation).docs_ok

WarningsOf(st) == IF st.validation = None THEN {} ELSE Val(st.validation).warnings

\* state.fraud_score, a missing score counted as 0.0
FraudScoreOr0(st) == IF st.fraud_score = None THEN 0 ELSE Val(st.fraud_score)

\* The resume guard: an existing decision is returned as it is
ResumeGuardKeeps(st) ==
    /\ st.claim_decision_made
    /\ st.final_decision \in {"APPROVED", "REJECTED", "ESCALATED_TO_SIU"}
    /\ FraudScoreOr0(st) < FRAUD_ESCALATION
    /\ RecOf(st) \notin {"SUSPECT", "REJECT", "NEED_MORE_DOCUMENTS"}

\* The hierarchy with the fraud threshold taken strictly: a variant that C1
\* tells apart from the code's
DecisionHierarchyStrict(st) ==
    IF ~DocsOkOf(st) \/ RecOf(st) = "NEED_MORE_DOCUMENTS" THEN "PENDING_DOCUMENTS"
    ELSE IF RecOf(st) = "REJECT" THEN "REJECTED"
    ELSE IF \/ FraudScoreOr0(st) > FRAUD_ESCALATION
            \/ Upper(st.fraud_decision) = "SUSPECT"
            \/ RecOf(st) = "SUSPECT" THEN "ESCALATED_TO_SIU"
    ELSE IF WarningsOf(st) # {} THEN "ESCALATED_TO_SIU"
    ELSE "APPROVED"

\* The hierarchy with the hard reject ahead of the documents rule: a variant
\* that C11 tells apart from the code's
DecisionHierarchyRejectFirst(st) ==
    IF RecOf(st) = "REJECT" THEN "REJECTED"
    ELSE IF ~DocsOkOf(st) \/ RecOf(st) = "NEED_MORE_DOCUMENTS" THEN "PENDING_DOCUMENTS"
    ELSE IF \/ FraudScoreOr0(st) >= FRAUD_ESCALATION
            \/ Upper(st.fraud_decision) = "SUSPECT"
            \/ RecOf(st) = "SUSPECT" THEN "ESCALATED_TO_SIU"
    ELSE IF WarningsOf(st) # {} THEN "ESCALATED_TO_SIU"
    ELSE "APPROVED"

\* The decision hierarchy
DecisionHierarchy(st) ==
    IF ~DocsOkOf(st) \/ RecOf(st) = "NEED_MORE_DOCUMENTS" THEN "PENDING_DOCUMENTS"
    ELSE IF RecOf(st) = "REJECT" THEN "REJECTED"
    ELSE IF \/ FraudScoreOr0(st) >= FRAUD_ESCALATION
            \/ Upper(st.fraud_decision) = "SUSPECT"
            \/ RecOf(st) = "SUSPECT" THEN "ESCALATED_TO_SIU"
    ELSE IF WarningsOf(st) # {} THEN "ESCALATED_TO_SIU"
    ELSE "APPROVED"

finalize_claim(st) ==
    IF ResumeGuardKeeps(st) THEN st
    ELSE [st EXCEPT !.final_decision = DecisionHierarchy(st),
                    !.claim_decision_made = TRUE]

\* The row after finalize_claim: final_decision and status are written only
\* when the decision hierarchy ran, and only to a row that exists
PersistDecision(row, before, after) ==
    IF ResumeGuardKeeps(before) \/ row.status = "NO_ROW" THEN row
    ELSE [row EXCEPT !.final_decision = after.final_decision,
                     !.status = after.final_decision]

(***************************************************************************)
(* Deterministic pre-validation (_prevalidate)                             *)
(*                                                                         *)
(* A text that may hold a date is [form, day]: form "none" (no date),      *)
(* "bare" (the text is exactly one date in a supported format) or          *)
(* "embedded" (a date in a supported format with other text around it).    *)
(***************************************************************************)
SetToSeqOf(order, S) == SelectSeq(order, LAMBDA x : x \in S)

ToSet(seq) == {seq[i] : i \in 1..Len(seq)}

\* MANDATORY_DOC_MARKERS, in the order of the list
MarkerOrder == <<"FIR", "DRIVING_LICENSE", "RC_BOOK", "POLICY_COPY",
                 "REPAIR_ESTIMATE", "ACCIDENT_PHOTOS">>

\* datetime.strptime on the whole token: only a bare date parses
ParseDateWithFormats(text) ==
    IF text.form = "bare" THEN Some(text.day) ELSE None

NoText == [form |-> "none", day |-> 0]

\* the block of a label: "" unless the splitter found a non-empty body
BlockPresent(f, label) == label \in f.blocks

\* incident date: from the description, else from the FIR body
IncidentDate(f) ==
    LET d == ParseDateWithFormats(f.desc_date)
        g == ParseDateWithFormats(IF BlockPresent(f, "FIR") THEN f.fir_date ELSE NoText)
    IN  IF d # None THEN d ELSE g

\* distinct registration tokens over the FIR, RC and policy blocks
SectionRegs(f) ==
    IF {"FIR", "RC_BOOK", "POLICY_COPY"} \cap f.blocks = {} THEN 0 ELSE f.section_regs

ESTIMATE_MINOR_LIMIT == 50000
ESTIMATE_MODERATE_LIMIT == 150000

CriticalErrorKeys == {E_FIR, E_DL, E_POLICY, E_VEH, E_NARR, E_FAKE}

\* the recommendation with the critical errors ahead of the missing
\* documents: a variant that C17 tells apart from the code's
RecommendationFromRejectFirst(missing, errors) ==
    IF errors \cap CriticalErrorKeys # {} THEN "REJECT"
    ELSE IF missing # {} THEN "NEED_MORE_DOCUMENTS"
    ELSE "APPROVE"

\* _recommendation_from
RecommendationFrom(missing, errors) ==
    IF missing # {} THEN "NEED_MORE_DOCUMENTS"
    ELSE IF errors \cap CriticalErrorKeys # {} THEN "REJECT"
    ELSE "APPROVE"

\* the note: the non-empty segments, or the fixed sentence
NoteOf(missing, errors, warnings, dflt) ==
    LET segs == (IF missing # {} THEN <<"Missing">> ELSE <<>>)
                \o (IF errors # {} THEN <<"Errors">> ELSE <<>>)
                \o (IF warnings # {} THEN <<"Warnings">> ELSE <<>>)
    IN  IF segs # <<>> THEN segs ELSE <<dflt>>

PreDocsOk(errors, missing) == Len(errors) = 0 /\ missing = {}

Prevalidate(f) ==
    LET missing == Labels \ f.markers
        incident == IncidentDate(f)
        \* 4) DL validity
        dlE == IF BlockPresent(f, "DRIVING_LICENSE")
               THEN IF incident # None /\ f.dl_valid_to # None
                       /\ Val(f.dl_valid_to) < Val(incident)
                    THEN <<E_DL>> ELSE <<>>
               ELSE <<>>
        dlW == IF ~BlockPresent(f, "DRIVING_LICENSE") /\ "DRIVING_LICENSE" \notin missing
               THEN <<W_DL_UNCLEAR>> ELSE <<>>
        \* 5) policy period and coverage
        hasPol == BlockPresent(f, "POLICY_COPY")
        polW == IF hasPol
                THEN (IF incident # None /\ f.policy_end = None
                      THEN <<W_POL_PERIOD>> ELSE <<>>)
                     \o (IF f.coverage = "UNKNOWN" THEN <<W_POL_COVER>> ELSE <<>>)
                ELSE IF "POLICY_COPY" \notin missing THEN <<W_POL_UNCLEAR>> ELSE <<>>
        polE == IF hasPol
                THEN (IF incident # None /\ f.policy_end # None
                         /\ Val(f.policy_end) < Val(incident)
                      THEN <<E_POLICY>> ELSE <<>>)
                     \o (IF f.coverage = "TP_ONLY" THEN <<E_POLICY>> ELSE <<>>)
                ELSE <<>>
        \* 6) vehicle consistency
        vehE == IF SectionRegs(f) >= 2 THEN <<E_VEH>> ELSE <<>>
        \* 7) customer name
        nameW == IF f.doc_name_mismatch
                    /\ {"DRIVING_LICENSE", "POLICY_COPY", "FIR"} \cap f.blocks # {}
                 THEN <<W_NAME>> ELSE <<>>
        \* 8) narrative against FIR
        narrE == IF f.has_desc /\ BlockPresent(f, "FIR") /\ f.narr_inconsistent
                 THEN <<E_NARR>> ELSE <<>>
        \* 9) estimate plausibility
        hasEst == BlockPresent(f, "REPAIR_ESTIMATE")
        estW == IF hasEst
                THEN (IF f.severity = "MINOR" /\ f.est_total > ESTIMATE_MINOR_LIMIT
                      THEN <<W_EST_HIGH>> ELSE <<>>)
                     \o (IF f.severity = "MODERATE" /\ f.est_total > ESTIMATE_MODERATE_LIMIT
                         THEN <<W_EST_INFL>> ELSE <<>>)
                     \o (IF BlockPresent(f, "ACCIDENT_PHOTOS") /\ f.photos_mismatch
                         THEN <<W_PHOTOS>> ELSE <<>>)
                ELSE <<W_EST_MISSING>>
        \* 10) FIR presence
        firE == IF "FIR" \in missing THEN <<E_FIR>> ELSE <<>>
        \* 11) unverifiable estimate
        fakeE == IF hasEst /\ f.est_unverifiable THEN <<E_FAKE>> ELSE <<>>
        warnings == dlW \o polW \o nameW \o estW
        errors == dlE \o polE \o vehE \o narrE \o firE \o fakeE
    IN  [required_missing |-> missing,
         warnings |-> warnings,
         errors |-> errors,
         docs_ok |-> PreDocsOk(errors, missing),
         note |-> NoteOf(missing, ToSet(errors), ToSet(warnings),
                         "Deterministic pre-validation found no critical issues."),
         recommendation |-> RecommendationFrom(missing, ToSet(errors))]

(***************************************************************************)
(* The two LLM passes.  A reply of the text-completion collaborator is     *)
(*   [kind |-> "raise"]    the call raised,                                *)
(*   [kind |-> "garbage"]  text holding no JSON object,                    *)
(*   [kind |-> "object", ...] a JSON object with the fields given.         *)
(***************************************************************************)
AbsentDoc == [present |-> FALSE, confidence |-> 0, citations |-> FALSE]

\* what the text-only pass hands on: the payload built when the call raised,
\* the parser's fallback for unparseable text, the object otherwise, with
\* the labels it does not mention filled in as absent
SafeLlmTextOnlyLoads(reply) ==
    CASE reply.kind = "raise" ->
            [docs |-> [l \in Labels |-> AbsentDoc],
             warnings |-> {}, errors |-> {E_TEXT_ONLY_FAILED}]
      [] reply.kind = "garbage" ->
            [docs |-> [l \in Labels |-> AbsentDoc],
             warnings |-> {}, errors |-> {}]
      [] OTHER ->
            [docs |-> [l \in Labels |->
                          IF l \in DOMAIN reply.docs THEN reply.docs[l] ELSE AbsentDoc],
             warnings |-> reply.warnings, errors |-> reply.errors]

\* what the full validation pass hands on, after _safe_json_loads and
\* _sanitize_llm_dict
SafeLlmFullLoads(reply) ==
    CASE reply.kind = "raise" ->
            [required_missing |-> {}, warnings |-> {}, errors |-> {E_CALL_FAILED},
             docs_ok |-> FALSE, recommendation |-> "NEED_MORE_DOCUMENTS"]
      [] reply.kind = "garbage" ->
            [required_missing |-> {}, warnings |-> {}, errors |-> {E_AI_FAILED},
             docs_ok |-> FALSE, recommendation |-> "NEED_MORE_DOCUMENTS"]
      [] OTHER ->
            [required_missing |-> reply.required_missing,
             warnings |-> reply.warnings, errors |-> reply.errors,
             docs_ok |-> reply.docs_ok,
             recommendation |-> Upper(reply.recommendation)]

TAU_LOW == 750
TAU_HIGH == 850
TAU_FRAUD_SPLIT == 600

Tau(fraud_score) == IF fraud_score < TAU_FRAUD_SPLIT THEN TAU_LOW ELSE TAU_HIGH

\* _merge_text_only_presence: marker presence, or a text-only assertion that
\* passes the fraud-aware confidence filter
MergeTextOnlyPresence(pre, llm_text_only, fraud_score) ==
    [l \in Labels |->
        \/ l \notin pre.required_missing
        \/ LET d == llm_text_only.docs[l]
           IN  d.present /\ d.confidence >= Tau(fraud_score) /\ d.citations]

RecommendationOrder(rec) ==
    CASE rec = "REJECT" -> 3
      [] rec = "NEED_MORE_DOCUMENTS" -> 2
      [] OTHER -> 1

\* _merge_recommendation
MergeRecommendation(local_rec, llm_rec) ==
    LET a == RecommendationOrder(Upper(IF local_rec = "" THEN "APPROVE" ELSE local_rec))
        b == RecommendationOrder(Upper(IF llm_rec = "" THEN "APPROVE" ELSE llm_rec))
    IN  IF a >= b THEN local_rec ELSE llm_rec

CriticalBlockers == {E_POLICY, E_DL}

\* final presence that counts a text-only assertion only through the
\* fraud-aware filter: a variant that C14 tells apart from the code's
FinalPresentFromFilter(pre_adjusted_missing, llm, llm_text_only, l) ==
    \/ l \notin pre_adjusted_missing
    \/ l \notin llm.required_missing

\* final presence of a label in the merge of llm_validation_agent
FinalPresent(pre_adjusted_missing, llm, llm_text_only, l) ==
    \/ l \notin pre_adjusted_missing
    \/ l \notin llm.required_missing
    \/ llm_text_only.docs[l].present

\* the united errors without the cleanup: a variant that C15 tells apart
\* from the code's
CleanErrorsKeepAll(errors, present) == errors

\* presence-aware cleanup of the united findings
CleanErrors(errors, present) ==
    IF present["FIR"] THEN errors \ {E_FIR} ELSE errors

\* a cleanup that leaves a placeholder entry when no warning is left: a
\* variant that C16 tells apart from the code's
CleanWarningsPlaceholder(warnings, present) ==
    LET kept == IF present["REPAIR_ESTIMATE"]
                THEN {w \in warnings :
                         LowerStrip(w) # "repair estimate not provided or unclear"}
                ELSE warnings
    IN  IF kept = {} THEN {"No warnings"} ELSE kept

CleanWarnings(warnings, present) ==
    IF present["REPAIR_ESTIMATE"]
    THEN {w \in warnings : LowerStrip(w) # "repair estimate not provided or unclear"}
    ELSE warnings

\* docs_ok without the critical blockers: a variant that C3 tells apart from
\* the code's
MergedDocsOkNoBlockers(missing, errors) == missing = {}

MergedDocsOk(missing, errors) == missing = {} /\ errors \cap CriticalBlockers = {}

\* the recommendation without the closing override to APPROVE: a variant that
\* C27 tells apart from the code's
FinalRecommendationNoApproveOverride(merged_rec, missing, errors) ==
    LET r1 == IF missing # {} THEN "NEED_MORE_DOCUMENTS" ELSE merged_rec
    IN  IF errors \cap CriticalBlockers # {} THEN "REJECT" ELSE r1

\* recommendation precedence and the critical overrides
FinalRecommendation(merged_rec, missing, errors) ==
    LET docs_ok == MergedDocsOk(missing, errors)
        r1 == IF missing # {} THEN "NEED_MORE_DOCUMENTS" ELSE merged_rec
        r2 == IF errors \cap CriticalBlockers # {} THEN "REJECT" ELSE r1
    IN  IF docs_ok /\ missing = {} THEN "APPROVE" ELSE r2

\* the merge of the motor path: pre, both parsed passes and the claim's
\* current fraud score give the ValidationResult
MergeFindings(pre, llm_text_only, llm, fraud_score) ==
    LET present_map == MergeTextOnlyPresence(pre, llm_text_only, fraud_score)
        adjusted_pre_missing == {l \in Labels : ~present_map[l]}
        final_present == [l \in Labels |->
                             FinalPresent(adjusted_pre_missing, llm, llm_text_only, l)]
        required_missing == {l \in Labels : ~final_present[l]}
        warnings == CleanWarnings(ToSet(pre.warnings) \cup llm.warnings
                                  \cup llm_text_only.warnings, final_present)
        errors == CleanErrors(ToSet(pre.errors) \cup llm.errors
                              \cup llm_text_only.errors, final_present)
        merged_rec == MergeRecommendation(pre.recommendation, llm.recommendation)
    IN  ValidationResult(required_missing, warnings, errors,
                         MergedDocsOk(required_missing, errors),
                         NoteOf(required_missing, errors, warnings,
                                "All mandatory checks passed; no critical findings."),
                         FinalRecommendation(merged_rec, required_missing, errors))

NonMotorValidation ==
    ValidationResult({}, {}, {E_NONMOTOR}, FALSE,
                     <<"Validation skipped: claim_type is not 'motor'.">>,
                     "NEED_MORE_DOCUMENTS")

\* float(d.get("confidence") or 0.0) in _merge_text_only_presence raises
\* ValueError on an entry whose confidence is text that is no number; such an
\* entry carries the text in the field confidence_text
FloatRaises(d) == "confidence_text" \in DOMAIN d

\* the exception is raised outside every try block of llm_validation_agent,
\* so the agent ends with it instead of returning; the claim type was
\* normalised on the state object before
ValidationRaises(st, text_reply) ==
    /\ LowerStrip(st.claim_type) = "motor"
    /\ text_reply.kind = "object"
    /\ \E l \in Labels : FloatRaises(SafeLlmTextOnlyLoads(text_reply).docs[l])

\* llm_validation_agent: the state after validation, given the two replies
llm_validation_agent(st, f, text_reply, full_reply) ==
    IF LowerStrip(st.claim_type) # "motor"
    THEN [st EXCEPT !.claim_type = LowerStrip(st.claim_type),
                    !.validation = Some(NonMotorValidation),
                    !.claim_validated = FALSE]
    ELSE LET v == MergeFindings(Prevalidate(f), SafeLlmTextOnlyLoads(text_reply),
                                SafeLlmFullLoads(full_reply), FraudScoreOr0(st))
         IN  [st EXCEPT !.claim_type = LowerStrip(st.claim_type),
                        !.validation = Some(v), !.claim_validated = v.docs_ok]

(***************************************************************************)
(* Fraud scorer (fraud_agent)                                              *)
(***************************************************************************)
Clamp01(x) == IF x < 0 THEN 0 ELSE IF x > 1000 THEN 1000 ELSE x

\* The thousandths ending in 5 that round(x, 2) takes up: the binary double
\* nearest to such a value lies above the tie for these and below it for the
\* others
TiesRoundedUp ==
    {5, 25, 35, 55, 65, 85, 95, 115, 135, 165, 195, 225, 255, 265, 275, 315,
     325, 335, 375, 385, 395, 405, 445, 455, 465, 505, 515, 525, 535, 545,
     555, 635, 645, 655, 665, 675, 685, 755, 765, 775, 785, 795, 805, 875,
     885, 895, 905, 915, 925, 935}

\* round(x, 2) of a score in [0, 1], in thousandths
Round2(x) ==
    LET r == x % 10
        down == x - r
    IN  IF r < 5 THEN down
        ELSE IF r > 5 THEN down + 10
        ELSE IF x \in TiesRoundedUp THEN down + 10 ELSE down

SUSPECT_ABOVE == 600
MODERATE_FROM == 300

\* _finalize_decision with SUSPECT from the threshold on: a variant that C6
\* tells apart from the code's
FinalizeFraudDecisionFromThreshold(score) ==
    IF score >= SUSPECT_ABOVE THEN "SUSPECT"
    ELSE IF score >= MODERATE_FROM THEN "MODERATE"
    ELSE "SAFE"

\* _finalize_decision
FinalizeFraudDecision(score) ==
    IF score > SUSPECT_ABOVE THEN "SUSPECT"
    ELSE IF score >= MODERATE_FROM THEN "MODERATE"
    ELSE "SAFE"

\* _name_mismatch: the customer name is set and is not in the OCR text
NameMismatch(f) == f.has_name /\ ~f.name_in_ocr

\* _vehicle_mismatch: two or more distinct tokens in the whole OCR text
VehicleMismatch(f) == f.ocr_regs >= 2

\* _narrative_contradiction: 'divider' in the description, rear impact in the OCR
NarrativeContradiction(f) == f.divider_rear

FLOOR_MISSING == 350
FLOOR_CRITICAL == 700
FLOOR_NARRATIVE == 600
FLOOR_REJECT == 700
FLOOR_FINDINGS == 350
FLOOR_NAME == 450
FLOOR_VEHICLE == 600
FLOOR_CONTRADICTION == 550

FraudCriticalErrors == {E_POLICY, E_DL, E_VEH, E_FAKE, E_FIR}

\* _risk_bump_from_validation
RiskBumpFromValidation(st) ==
    IF st.validation = None THEN 0
    ELSE LET v == Val(st.validation)
             b1 == IF v.required_missing # {} THEN FLOOR_MISSING ELSE 0
             b2 == IF v.errors \cap FraudCriticalErrors # {} THEN FLOOR_CRITICAL ELSE 0
             b3 == IF E_NARR \in v.errors \/ E_NARR \in v.warnings
                   THEN FLOOR_NARRATIVE ELSE 0
             b4 == IF Upper(v.recommendation) = "REJECT" THEN FLOOR_REJECT ELSE 0
             b5 == IF ~v.docs_ok /\ (v.errors # {} \/ v.required_missing # {})
                   THEN FLOOR_FINDINGS ELSE 0
         IN  Clamp01(Max2(b1, Max2(b2, Max2(b3, Max2(b4, b5)))))

\* _risk_bump_from_heuristics without the name floor: a variant that C7 tells
\* apart from the code's
RiskBumpFromHeuristicsNoName(f) ==
    LET h2 == IF VehicleMismatch(f) THEN FLOOR_VEHICLE ELSE 0
        h3 == IF NarrativeContradiction(f) THEN FLOOR_CONTRADICTION ELSE 0
    IN  Clamp01(Max2(h2, h3))

\* _risk_bump_from_heuristics
RiskBumpFromHeuristics(f) ==
    LET h1 == IF NameMismatch(f) THEN FLOOR_NAME ELSE 0
        h2 == IF VehicleMismatch(f) THEN FLOOR_VEHICLE ELSE 0
        h3 == IF NarrativeContradiction(f) THEN FLOOR_CONTRADICTION ELSE 0
    IN  Clamp01(Max2(h1, Max2(h2, h3)))

\* The LLM's estimate after safe_json_parse, float() and the clamp.  A reply is
\* [kind |-> "raise"], [kind |-> "garbage"] or [kind |-> "object",
\* score_kind |-> "number" | "nan" | "text" | "missing", score |-> thousandths,
\* decision |-> label].  min(1.0, nan) is 1.0; float() of a text raises and
\* gives 0.0, as does a reply that cannot be parsed.
LlmFraudScore(reply) ==
    IF reply.kind # "object" THEN 0
    ELSE CASE reply.score_kind = "number" -> Clamp01(reply.score)
           [] reply.score_kind = "nan" -> 1000
           [] OTHER -> 0

\* the label the LLM suggests, sanitised; it is not used for the decision
LlmFraudDecision(reply) ==
    IF reply.kind # "object" THEN "SAFE"
    ELSE IF Upper(reply.decision) \in FraudDecisions THEN Upper(reply.decision)
    ELSE "SAFE"

FinalFraudScore(st, f, reply) ==
    Round2(Clamp01(Max2(LlmFraudScore(reply),
                        Max2(RiskBumpFromValidation(st), RiskBumpFromHeuristics(f)))))

\* the LLM is called only past the claim-type check
FraudLlmCalled(st) == LowerStrip(st.claim_type) = "motor"

\* a scorer without the claim-type check: a variant that C19 tells apart
\* from the code's
fraud_agent_any_type(st, f, reply) ==
    LET score == FinalFraudScore(st, f, reply)
    IN  [st EXCEPT !.fraud_checked = TRUE,
                   !.fraud_score = Some(score),
                   !.fraud_decision = FinalizeFraudDecision(score)]

fraud_agent(st, f, reply) ==
    IF LowerStrip(st.claim_type) # "motor" THEN st
    ELSE LET score == FinalFraudScore(st, f, reply)
         IN  [st EXCEPT !.fraud_checked = TRUE,
                        !.fraud_score = Some(score),
                        !.fraud_decision = FinalizeFraudDecision(score)]

(***************************************************************************)
(* Storage: the row of the claims table, and the state rebuilt from it     *)
(***************************************************************************)
\* the row as upsert_claim_registration inserts it
NewRow(claim_type) ==
    [claim_type |-> claim_type,
     status |-> "REGISTERED",
     validation |-> None,
     claim_validated |-> FALSE,
     fraud_checked |-> FALSE,
     fraud_score |-> None,
     fraud_decision |-> NoStr,
     final_decision |-> NoStr,
     investigator_id |-> None,
     investigator_load |-> 0,
     assignment_rows |-> 0,
     document_extracted_text |-> None]

NoRow == [NewRow("") EXCEPT !.status = "NO_ROW"]

\* build_state_from_db
build_state_from_db(row) ==
    LET base == NewClaimState(LowerStrip(row.claim_type))
        restored ==
            IF row.validation = None THEN base
            ELSE LET v == Val(row.validation)
                 IN  [base EXCEPT
                        !.validation = Some([v EXCEPT !.recommendation = Upper(@)]),
                        !.claim_validated = v.docs_ok]
    IN  [restored EXCEPT !.fraud_checked = row.fraud_checked,
                         !.fraud_score = row.fraud_score,
                         !.fraud_decision = row.fraud_decision,
                         !.final_decision = row.final_decision,
                         !.claim_decision_made = (row.final_decision # NoStr),
                         !.claim_registered = TRUE,
                         !.claim_validated = row.claim_validated]

\* ManagerDecisionTool accepts the decision
ValidDecision(decision) ==
    Upper(decision) \in {"APPROVED", "REJECTED", "PENDING_DOCUMENTS"}

\* ManagerDecisionTool: the manual override writes the row; the UPDATE
\* matches nothing when the transaction has no row
ManagerDecisionTool(row, decision) ==
    IF ~ValidDecision(decision) \/ row.status = "NO_ROW" THEN row
    ELSE [row EXCEPT !.final_decision = Upper(decision), !.status = Upper(decision)]

\* upsert_claim_registration: a new row, or the row there is (the conflict
\* branch touches none of the modelled columns but claim_type)
upsert_claim_registration(row, claim_type) ==
    IF row.status = "NO_ROW" THEN NewRow(claim_type)
    ELSE [row EXCEPT !.claim_type = claim_type]

\* registration_agent: the resume-safe defaults
registration_agent(st) ==
    [st EXCEPT !.claim_registered = TRUE,
               !.fraud_score = IF @ = None THEN Some(0) ELSE @]

(***************************************************************************)
(* Investigator assignment: one investigator for motor claims, who takes   *)
(* cases while current_load < max_cases                                    *)
(***************************************************************************)
MaxCases == 1

\* get_available_investigator
get_available_investigator(row, claim_type) ==
    IF Upper(claim_type) = "MOTOR" /\ row.investigator_load < MaxCases
    THEN Some(1) ELSE None

\* increment_investigator_load and record_assignment
record_assignment(row, investigator) ==
    [row EXCEPT !.investigator_load = @ + 1,
                !.assignment_rows = @ + 1,
                !.investigator_id = investigator]

InvestigatorAssigns(st, row) ==
    /\ st.fraud_checked
    /\ st.fraud_score # None /\ Val(st.fraud_score) >= FRAUD_ESCALATION
    /\ get_available_investigator(row, st.claim_type) # None

\* investigator_agent: the state, and the tables, after the agent
investigator_agent(st, row) ==
    IF InvestigatorAssigns(st, row)
    THEN [st EXCEPT !.assignment = get_available_investigator(row, st.claim_type)]
    ELSE st

InvestigatorTables(st, row) ==
    IF InvestigatorAssigns(st, row)
    THEN record_assignment(row, get_available_investigator(row, st.claim_type))
    ELSE row

(***************************************************************************)
(* The tools of main.py, as functions of the claim's row and the replies   *)
(***************************************************************************)
\* the update_claim_fields call that closes ClaimLLMValidationTool, on the
\* row as it is when the statement runs
ValidationColumns(row, st) ==
    [row EXCEPT !.validation = st.validation,
                !.claim_validated = st.claim_validated,
                !.status = IF st.claim_validated THEN "AI_VALIDATED"
                           ELSE "PENDING_DOCUMENTS"]

\* the update_claim_fields call that closes FraudCheckTool
FraudColumns(row, st) ==
    [row EXCEPT !.fraud_score = st.fraud_score,
                !.fraud_decision = st.fraud_decision,
                !.status = "FRAUD_CHECKED"]

\* the update_claim_fields call that closes ManagerProcessingTool
ProcessingColumns(row, st) ==
    [row EXCEPT !.final_decision = st.final_decision,
                !.status = st.final_decision,
                !.fraud_score = st.fraud_score,
                !.fraud_decision = st.fraud_decision,
                !.fraud_checked = st.fraud_checked,
                !.investigator_id = st.assignment,
                !.validation = st.validation]

(***************************************************************************)
(* The claim graph (build_claim_graph_v3)                                  *)
(***************************************************************************)
\* fraud_agent_safe: the fraud node runs fraud_agent only without a score
fraud_agent_safe(st, f, reply) ==
    IF st.fraud_score # None THEN st ELSE fraud_agent(st, f, reply)

\* route_after_validation
route_after_validation(st) ==
    IF st.validation = None \/ ~Val(st.validation).docs_ok THEN "manager" ELSE "fraud"

(***************************************************************************)
(* Bounded inputs                                                          *)
(***************************************************************************)
MaxRegs == 2    \* registration tokens counted in a text: 0..MaxRegs
MaxDay == 3     \* dates are days 1..MaxDay

\* All six documents present and consistent, nothing to report.  The
\* description speaks of the day of the accident in words no date format
\* reads, and the FIR block gives its date inside a line of text.
CleanFacts ==
    [claim_type |-> "motor",
     has_name |-> TRUE, has_desc |-> TRUE,
     markers |-> Labels, blocks |-> Labels,
     desc_date |-> [form |-> "none", day |-> 0],
     fir_date |-> [form |-> "embedded", day |-> 2],
     dl_valid_to |-> Some(MaxDay), policy_end |-> Some(MaxDay),
     coverage |-> "COMPREHENSIVE",
     section_regs |-> 1, doc_name_mismatch |-> FALSE, narr_inconsistent |-> FALSE,
     severity |-> "MODERATE", est_total |-> 27300,
     photos_mismatch |-> FALSE, est_unverifiable |-> FALSE,
     name_in_ocr |-> TRUE, ocr_regs |-> 1, divider_rear |-> FALSE]

\* the same claim with a description that is the date of the accident and
\* nothing else: the one form from which _prevalidate takes an incident date
DatedFacts == [CleanFacts EXCEPT !.desc_date = [form |-> "bare", day |-> 2]]

\* the document sets the inputs choose from
MarkerChoices ==
    {Labels, Labels \ {"FIR"}, Labels \ {"REPAIR_ESTIMATE"},
     Labels \ {"FIR", "DRIVING_LICENSE"}, {}}

\* one way in which the documents depart from the clean case
Issues == {"clean", "dl_expired", "dl_no_date", "policy_expired", "tp_only",
           "coverage_unknown", "two_regs", "name", "narrative", "estimate_high",
           "fake_estimate", "embedded_date", "dl_block_empty"}

WithIssue(f, issue) ==
    CASE issue = "dl_expired" -> [f EXCEPT !.dl_valid_to = Some(1)]
      [] issue = "dl_no_date" -> [f EXCEPT !.dl_valid_to = None]
      [] issue = "policy_expired" -> [f EXCEPT !.policy_end = Some(1)]
      [] issue = "tp_only" -> [f EXCEPT !.coverage = "TP_ONLY"]
      [] issue = "coverage_unknown" -> [f EXCEPT !.coverage = "UNKNOWN",
                                                 !.policy_end = None]
      [] issue = "two_regs" -> [f EXCEPT !.section_regs = MaxRegs,
                                         !.ocr_regs = MaxRegs]
      [] issue = "name" -> [f EXCEPT !.doc_name_mismatch = TRUE,
                                     !.name_in_ocr = FALSE]
      [] issue = "narrative" -> [f EXCEPT !.narr_inconsistent = TRUE,
                                          !.divider_rear = TRUE]
      [] issue = "estimate_high" -> [f EXCEPT !.severity = "MINOR",
                                              !.est_total = 60000,
                                              !.photos_mismatch = TRUE]
      [] issue = "fake_estimate" -> [f EXCEPT !.est_unverifiable = TRUE]
      [] issue = "embedded_date" -> [f EXCEPT !.desc_date.form = "embedded",
                                              !.dl_valid_to = Some(1)]
      [] issue = "dl_block_empty" -> [f EXCEPT !.blocks = @ \ {"DRIVING_LICENSE"}]
      [] OTHER -> f

\* a block is non-empty only if its marker is there (no alias headings)
WithMarkers(f, m) == [f EXCEPT !.markers = m, !.blocks = @ \cap m]

FactsAll == {WithMarkers(WithIssue(DatedFacts, i), m) : i \in Issues, m \in MarkerChoices}

ClaimTypes == {"motor", "motor  ", "health", ""}

\* entries of the text-only pass for one document
DocEntry(p, c, cited) == [present |-> p, confidence |-> c, citations |-> cited]

FirEntries ==
    {AbsentDoc, DocEntry(TRUE, 749, TRUE), DocEntry(TRUE, 750, TRUE),
     DocEntry(TRUE, 849, TRUE), DocEntry(TRUE, 850, TRUE),
     DocEntry(TRUE, 900, FALSE), DocEntry(FALSE, 900, TRUE)}

OtherEntries == {AbsentDoc, DocEntry(TRUE, 900, TRUE), DocEntry(TRUE, 700, TRUE)}

LlmFindings ==
    {[warnings |-> {}, errors |-> {}],
     [warnings |-> {"Check inflation"}, errors |-> {}],
     [warnings |-> {"repair estimate not provided or unclear"}, errors |-> {}],
     [warnings |-> {}, errors |-> {E_DL}]}

\* a well-formed JSON object of the text-only pass whose FIR entry gives its
\* confidence as the text "high"
MalformedTextReply ==
    [kind |-> "object",
     docs |-> [l \in Labels |->
                  IF l = "FIR"
                  THEN [present |-> TRUE, confidence |-> 0, citations |-> TRUE,
                        confidence_text |-> "high"]
                  ELSE AbsentDoc],
     warnings |-> {}, errors |-> {}]

FailedReplies == {[kind |-> "raise"], [kind |-> "garbage"]}

\* replies of the text-only pass: the FIR entry, one entry for the other
\* five documents, and the pass's own findings
TextReplies ==
    FailedReplies \cup
    {[kind |-> "object",
      docs |-> [l \in Labels |-> IF l = "FIR" THEN e1 ELSE e2],
      warnings |-> fd.warnings, errors |-> fd.errors] :
        e1 \in FirEntries, e2 \in OtherEntries,
        fd \in {x \in LlmFindings : x.errors = {}}}
    \cup {MalformedTextReply}

\* replies of the full validation pass
FullReplies ==
    FailedReplies \cup
    {[kind |-> "object",
      required_missing |-> m, warnings |-> fd.warnings, errors |-> fd.errors,
      docs_ok |-> (m = {}), recommendation |-> r] :
        m \in {{}, {"FIR"}, Labels}, fd \in LlmFindings,
        r \in {"APPROVE", "NEED_MORE_DOCUMENTS", "REJECT", "maybe"}}

\* fraud scores a claim may carry before validation
PriorFraudScores == {None, Some(590), Some(600)}

NoIO == [kind |-> "none"]

(***************************************************************************)
(* SpecValidate: llm_validation_agent on every input, then finalize_claim  *)
(***************************************************************************)
FactsV ==
    {WithMarkers(WithIssue(DatedFacts, i), m) :
        i \in {"clean", "dl_expired", "tp_only", "two_regs", "narrative",
               "estimate_high", "dl_block_empty", "embedded_date"},
        m \in {Labels, Labels \ {"FIR"}, Labels \ {"REPAIR_ESTIMATE"}, {}}}

InitValidate ==
    /\ facts \in FactsV \cup {CleanFacts, [DatedFacts EXCEPT !.claim_type = "health"]}
    /\ \E fs \in PriorFraudScores :
          state = [NewClaimState(facts.claim_type) EXCEPT
                      !.claim_registered = TRUE, !.fraud_score = fs]
    /\ db = NewRow(facts.claim_type)
    /\ pc = "validate"
    /\ op = "init"
    /\ io = NoIO

\* the validation step: both passes reply, the agent merges
VRunValidation ==
    /\ pc = "validate"
    /\ \E t \in TextReplies, r \in FullReplies :
          IF ValidationRaises(state, t)
          THEN /\ state' = [state EXCEPT !.claim_type = LowerStrip(state.claim_type)]
               /\ io' = [kind |-> "validation_raised", text_only |-> t,
                         error |-> "ValueError"]
               /\ pc' = "end"
          ELSE /\ state' = llm_validation_agent(state, facts, t, r)
               /\ io' = [kind |-> "validation",
                         pre |-> Prevalidate(facts),
                         text_only |-> t, full |-> r,
                         fraud_score |-> FraudScoreOr0(state)]
               /\ pc' = "manager"
    /\ op' = "llm_validation_agent"
    /\ UNCHANGED <<facts, db>>

\* the decision step on the validated claim
VRunManager ==
    /\ pc = "manager"
    /\ state' = finalize_claim(state)
    /\ db' = PersistDecision(db, state, state')
    /\ pc' = "end"
    /\ op' = "finalize_claim"
    /\ UNCHANGED <<facts, io>>

NextValidate == VRunValidation \/ VRunManager

SpecValidate == InitValidate /\ [][NextValidate]_vars

(***************************************************************************)
(* Properties of the validator                                             *)
(***************************************************************************)
Validated == pc \in {"manager", "end"} /\ io.kind = "validation"

MotorValidated == Validated /\ LowerStrip(facts.claim_type) = "motor"

Merged == Val(state.validation)

BothPassesFailed == io.text_only.kind # "object" /\ io.full.kind # "object"

\* C3: every Findings object the validator produces, the deterministic one
\* and the ValidationResult returned (motor or not), has docs_ok true only
\* with no missing document and neither critical-blocker error.
C3_DocsOkImpliesComplete ==
    Validated =>
        /\ io.pre.docs_ok =>
              /\ io.pre.required_missing = {}
              /\ ToSet(io.pre.errors) \cap {E_DL, E_POLICY} = {}
        /\ Merged.docs_ok =>
              /\ Merged.required_missing = {}
              /\ Merged.errors \cap {E_DL, E_POLICY} = {}

\* a merged result with docs_ok true that still carries errors, next to a
\* deterministic result with docs_ok false
C3_Witness ==
    /\ MotorValidated
    /\ Merged.docs_ok /\ Merged.errors # {}
    /\ ~io.pre.docs_ok

\* C4: a label is absent from the merged required_missing exactly when the
\* marker check found it, or the full pass does not list it as missing, or
\* the text-only pass asserts it with confidence >= tau and a citation.
C4_PresenceRule ==
    MotorValidated =>
        \A l \in Labels :
            (l \notin Merged.required_missing) <=>
                \/ l \in facts.markers
                \/ l \notin SafeLlmFullLoads(io.full).required_missing
                \/ LET d == SafeLlmTextOnlyLoads(io.text_only).docs[l]
                   IN  /\ d.present
                       /\ d.confidence >= (IF io.fraud_score < 600 THEN 750 ELSE 850)
                       /\ d.citations

Severity(rec) == CASE rec = "REJECT" -> 3 [] rec = "NEED_MORE_DOCUMENTS" -> 2 [] OTHER -> 1

\* C5: the merged recommendation is at least as severe as the deterministic
\* recommendation and as the recommendation the full pass returned.
C5_RecommendationIsMaximum ==
    MotorValidated =>
        /\ Severity(Merged.recommendation) >= Severity(io.pre.recommendation)
        /\ io.full.kind = "object" =>
              Severity(Merged.recommendation) >= Severity(Upper(io.full.recommendation))

\* neither pass says the FIR is there: a failed pass says nothing
NoPassReportsFir ==
    /\ ~(io.text_only.kind = "object" /\ io.text_only.docs["FIR"].present)
    /\ ~(io.full.kind = "object" /\ "FIR" \notin io.full.required_missing)

\* C9: without a FIR marker and without a pass reporting the FIR, the
\* Findings list FIR as missing, carry 'FIR not found', recommend
\* NEED_MORE_DOCUMENTS, and the decision is PENDING_DOCUMENTS.
C9_MissingFir ==
    (MotorValidated /\ "FIR" \notin facts.markers /\ NoPassReportsFir) =>
        /\ "FIR" \in Merged.required_missing
        /\ E_FIR \in Merged.errors
        /\ Merged.recommendation = "NEED_MORE_DOCUMENTS"
        /\ pc = "end" => state.final_decision = "PENDING_DOCUMENTS"

\* C10: when both passes fail the deterministic layer alone drives the
\* merge: its required_missing is the result's, its warnings and errors are
\* all kept, and a decision is still reached.
C10_BothPassesFail ==
    (MotorValidated /\ BothPassesFailed) =>
        /\ Merged.required_missing = io.pre.required_missing
        /\ ToSet(io.pre.warnings) \subseteq Merged.warnings
        /\ ToSet(io.pre.errors) \subseteq Merged.errors
        /\ pc = "end" => state.final_decision \in Decisions

(***************************************************************************)
(* SpecManager: finalize_claim on every combination of its inputs, manual  *)
(* overrides, and the state restored from storage                          *)
(***************************************************************************)
ManagerValidations ==
    {None} \cup
    {Some(ValidationResult({}, w, {}, d, <<>>, r)) :
        w \in {{}, {W_NAME}}, d \in BOOLEAN,
        r \in {"APPROVE", "approve", "NEED_MORE_DOCUMENTS", "REJECT", "SUSPECT", ""}}

ManagerFraudScores == {None, Some(0), Some(699), Some(700), Some(1000)}

ManagerFraudDecisions == {NoStr, "SAFE", "SUSPECT", "suspect"}

OverrideInputs == {"APPROVED", "rejected", "PENDING_DOCUMENTS", "ESCALATED_TO_SIU"}

InitManager ==
    /\ facts = DatedFacts
    /\ \E v \in ManagerValidations, fs \in ManagerFraudScores,
          fd \in ManagerFraudDecisions :
          /\ db = [NewRow("motor") EXCEPT
                      !.validation = v,
                      !.claim_validated = DocsOkOf([validation |-> v]),
                      !.fraud_score = fs, !.fraud_decision = fd]
          /\ state = build_state_from_db(db)
    /\ pc = "idle"
    /\ op = "init"
    /\ io = NoIO

\* a call of finalize_claim; io keeps the state it was called with
MgrFinalize ==
    /\ state' = finalize_claim(state)
    /\ db' = PersistDecision(db, state, state')
    /\ io' = [kind |-> "manager", before |-> state]
    /\ op' = "finalize_claim"
    /\ UNCHANGED <<facts, pc>>

\* a manager overrides the decision in storage
MgrOverride ==
    /\ \E d \in OverrideInputs : db' = ManagerDecisionTool(db, d)
    /\ io' = NoIO
    /\ op' = "ManagerDecisionTool"
    /\ UNCHANGED <<facts, state, pc>>

\* the claim is loaded again from storage
MgrReload ==
    /\ state' = build_state_from_db(db)
    /\ io' = NoIO
    /\ op' = "build_state_from_db"
    /\ UNCHANGED <<facts, db, pc>>

NextManager == MgrFinalize \/ MgrOverride \/ MgrReload

SpecManager == InitManager /\ [][NextManager]_vars

Finalized == op = "finalize_claim" /\ io.kind = "manager"

\* C1: on a claim without a prior decision finalize_claim applies the first
\* matching rule of: docs not ok or NEED_MORE_DOCUMENTS -> PENDING_DOCUMENTS;
\* REJECT -> REJECTED; fraud score >= 0.70, fraud decision SUSPECT or
\* recommendation SUSPECT -> ESCALATED_TO_SIU; a warning -> ESCALATED_TO_SIU;
\* otherwise APPROVED; and sets claim_decision_made. A missing validation
\* counts as docs not ok, a missing fraud score as 0.
C1_DecisionRules ==
    (Finalized /\ io.before.final_decision = NoStr) =>
        LET b == io.before
            has == b.validation # None
            docs_ok == has /\ Val(b.validation).docs_ok
            rec == IF has THEN Upper(Val(b.validation).recommendation) ELSE ""
            warned == has /\ Val(b.validation).warnings # {}
            score == IF b.fraud_score = None THEN 0 ELSE Val(b.fraud_score)
            expected ==
                CASE ~docs_ok \/ rec = "NEED_MORE_DOCUMENTS" -> "PENDING_DOCUMENTS"
                  [] docs_ok /\ rec = "REJECT" -> "REJECTED"
                  [] docs_ok /\ rec \notin {"NEED_MORE_DOCUMENTS", "REJECT"}
                     /\ (score >= 700 \/ Upper(b.fraud_decision) = "SUSPECT"
                            \/ rec = "SUSPECT") -> "ESCALATED_TO_SIU"
                  [] docs_ok /\ rec \notin {"NEED_MORE_DOCUMENTS", "REJECT", "SUSPECT"}
                     /\ score < 700 /\ Upper(b.fraud_decision) # "SUSPECT"
                     /\ warned -> "ESCALATED_TO_SIU"
                  [] OTHER -> "APPROVED"
        IN  /\ state.final_decision = expected
            /\ state.claim_decision_made

\* a first decision taken exactly at the escalation threshold
C1_Witness ==
    /\ Finalized /\ io.before.final_decision = NoStr
    /\ io.before.fraud_score = Some(700)
    /\ io.before.validation # None /\ Val(io.before.validation).warnings = {}
    /\ state.final_decision = "ESCALATED_TO_SIU"

\* C2: a call of finalize_claim on a claim that has a final decision, an
\* override restored from storage included, leaves the decision as it was.
C2_DecisionKept ==
    (Finalized /\ io.before.final_decision \in Decisions) =>
        state.final_decision = io.before.final_decision

(***************************************************************************)
(* SpecFraud: fraud_agent on every validation result, OCR heuristic and    *)
(* LLM reply, then finalize_claim                                          *)
(***************************************************************************)
FraudValidations ==
    {None,
     Some(ValidationResult({}, {}, {}, TRUE, <<>>, "APPROVE")),
     Some(ValidationResult({"FIR"}, {}, {E_FIR}, FALSE, <<>>, "NEED_MORE_DOCUMENTS")),
     Some(ValidationResult({"ACCIDENT_PHOTOS"}, {}, {}, FALSE, <<>>, "NEED_MORE_DOCUMENTS")),
     Some(ValidationResult({}, {}, {E_VEH}, TRUE, <<>>, "APPROVE")),
     Some(ValidationResult({}, {}, {E_NARR}, TRUE, <<>>, "APPROVE")),
     Some(ValidationResult({}, {E_NARR}, {}, TRUE, <<>>, "APPROVE")),
     Some(ValidationResult({}, {}, {E_DL}, FALSE, <<>>, "REJECT")),
     Some(ValidationResult({}, {W_NAME}, {}, TRUE, <<>>, "reject")),
     Some(ValidationResult({}, {}, {E_AI_FAILED}, FALSE, <<>>, "NEED_MORE_DOCUMENTS"))}

FactsF ==
    {[DatedFacts EXCEPT !.name_in_ocr = n, !.ocr_regs = k, !.divider_rear = d] :
        n \in BOOLEAN, k \in 1..MaxRegs, d \in BOOLEAN}

LlmScores == {-200, 0, 295, 299, 300, 304, 305, 455, 595, 600, 604, 605, 606, 1500}

FraudReplies ==
    FailedReplies \cup
    {[kind |-> "object", score_kind |-> "number", score |-> x, decision |-> d] :
        x \in LlmScores, d \in {"SAFE", "suspect", "bogus"}} \cup
    {[kind |-> "object", score_kind |-> k, score |-> 0, decision |-> "SUSPECT"] :
        k \in {"nan", "text", "missing"}}

\* the fraud fields a claim carries into the scorer: none, or those of an
\* earlier scoring
PriorFraudFields ==
    {[fraud_checked |-> FALSE, fraud_score |-> None, fraud_decision |-> NoStr],
     [fraud_checked |-> TRUE, fraud_score |-> Some(450), fraud_decision |-> "MODERATE"]}

InitFraud ==
    /\ facts \in FactsF \cup {[DatedFacts EXCEPT !.claim_type = c] :
                                 c \in {"health", "", "motor  "}}
    /\ \E v \in FraudValidations, p \in PriorFraudFields :
          state = [NewClaimState(facts.claim_type) EXCEPT
                      !.claim_registered = TRUE, !.validation = v,
                      !.claim_validated = DocsOkOf([validation |-> v]),
                      !.fraud_checked = p.fraud_checked,
                      !.fraud_score = p.fraud_score,
                      !.fraud_decision = p.fraud_decision]
    /\ db = NewRow(facts.claim_type)
    /\ pc = "fraud"
    /\ op = "init"
    /\ io = NoIO

\* the fraud step: the LLM replies, fraud_agent scores
FRunFraud ==
    /\ pc = "fraud"
    /\ \E reply \in FraudReplies :
          /\ state' = fraud_agent(state, facts, reply)
          /\ io' = [kind |-> "fraud", reply |-> reply, before |-> state,
                    llm_called |-> FraudLlmCalled(state)]
    /\ pc' = "manager"
    /\ op' = "fraud_agent"
    /\ UNCHANGED <<facts, db>>

\* the decision step on the scored claim
FRunManager ==
    /\ pc = "manager"
    /\ state' = finalize_claim(state)
    /\ db' = PersistDecision(db, state, state')
    /\ pc' = "end"
    /\ op' = "finalize_claim"
    /\ UNCHANGED <<facts, io>>

NextFraud == FRunFraud \/ FRunManager

SpecFraud == InitFraud /\ [][NextFraud]_vars

MotorScored ==
    /\ pc \in {"manager", "end"} /\ io.kind = "fraud"
    /\ LowerStrip(facts.claim_type) = "motor"

Score == Val(state.fraud_score)

\* C6: whatever the LLM replies, the stored score is in [0, 1], is above
\* 0.6 exactly for SUSPECT, below 0.3 exactly for SAFE, and MODERATE otherwise.
C6_ScoreDecisionMapping ==
    MotorScored =>
        /\ state.fraud_score # None
        /\ Score \in 0..1000
        /\ (Score > 600) <=> (state.fraud_decision = "SUSPECT")
        /\ (Score < 300) <=> (state.fraud_decision = "SAFE")
        /\ (Score >= 300 /\ Score <= 600) <=> (state.fraud_decision = "MODERATE")

\* the LLM suggests SUSPECT-like labels and an estimate that rounds to 0.60:
\* the decision is MODERATE
C6_Witness ==
    /\ MotorScored
    /\ io.reply.kind = "object" /\ io.reply.decision = "suspect"
    /\ Score = 600 /\ state.fraud_decision = "MODERATE"

\* what the LLM's reply contributes: the estimate clamped to [0, 1], 1 for a
\* NaN, 0 for a failed call or a reply without a usable number
Estimate ==
    IF io.reply.kind # "object" THEN 0
    ELSE IF io.reply.score_kind = "nan" THEN 1000
    ELSE IF io.reply.score_kind # "number" THEN 0
    ELSE IF io.reply.score < 0 THEN 0
    ELSE IF io.reply.score > 1000 THEN 1000 ELSE io.reply.score

\* the floors that apply to the scored claim, as {floor}; the 0.35 floor for
\* a validation that is not docs_ok and has an error is the last one
ListedFloors ==
    LET b == io.before
        has == b.validation # None
        v == Val(b.validation)
    IN  {0}
        \cup (IF has /\ v.required_missing # {} THEN {350} ELSE {})
        \cup (IF has /\ (v.errors \cap {E_POLICY, E_DL, E_VEH, E_FAKE, E_FIR} # {}
                         \/ Upper(v.recommendation) = "REJECT") THEN {700} ELSE {})
        \cup (IF has /\ E_NARR \in (v.errors \cup v.warnings) THEN {600} ELSE {})
        \cup (IF facts.has_name /\ ~facts.name_in_ocr THEN {450} ELSE {})
        \cup (IF facts.ocr_regs >= 2 THEN {600} ELSE {})
        \cup (IF facts.divider_rear THEN {550} ELSE {})

FallbackFloor ==
    LET b == io.before
    IN  IF b.validation # None /\ ~Val(b.validation).docs_ok
           /\ Val(b.validation).errors # {} THEN {350} ELSE {}

SetMax(S) == CHOOSE x \in S : \A y \in S : y <= x

\* C7 as stated: the stored score is the maximum of the clamped estimate and
\* the listed floors.
C7_ScoreIsMaximum ==
    MotorScored => Score = SetMax(ListedFloors \cup {Estimate})

\* C7: the stored score is at least every floor that applies, and it is the
\* maximum of the clamped estimate, the listed floors and the 0.35 floor of a
\* failed validation with errors, rounded to two decimals.
C7_ScoreIsRoundedMaximum ==
    MotorScored =>
        LET m == SetMax(ListedFloors \cup FallbackFloor \cup {Estimate})
        IN  /\ \A fl \in ListedFloors : Score >= fl
            /\ Score % 10 = 0
            /\ Score - m \in -5..5

\* the name floor decides the score although the LLM call failed
C7_Witness ==
    /\ MotorScored
    /\ io.reply.kind = "raise"
    /\ ~facts.name_in_ocr /\ facts.ocr_regs < 2 /\ ~facts.divider_rear
    /\ io.before.validation # None /\ Val(io.before.validation).docs_ok
    /\ Score = 450

(***************************************************************************)
(* Spec: the processing pipeline of one claim.  The tools of main.py are   *)
(* served by processes that share the database: every statement of a call  *)
(* is a transaction of its own, and the statements of the calls in flight  *)
(* interleave (pc.calls).  A run of the claim graph goes node by node,     *)
(* pc.graph naming the node to run next.                                   *)
(***************************************************************************)
FactsP ==
    {DatedFacts, WithIssue(DatedFacts, "two_regs"),
     WithMarkers(DatedFacts, Labels \ {"FIR"}),
     [DatedFacts EXCEPT !.claim_type = "health"]}

TextRepliesP ==
    {[kind |-> "raise"],
     [kind |-> "object", docs |-> [l \in Labels |-> DocEntry(TRUE, 900, TRUE)],
      warnings |-> {}, errors |-> {}]}

FullRepliesP ==
    {[kind |-> "raise"],
     [kind |-> "object", required_missing |-> {}, warnings |-> {}, errors |-> {},
      docs_ok |-> TRUE, recommendation |-> "APPROVE"],
     [kind |-> "object", required_missing |-> {"FIR"}, warnings |-> {},
      errors |-> {E_FIR}, docs_ok |-> FALSE, recommendation |-> "NEED_MORE_DOCUMENTS"]}

FraudRepliesP ==
    {[kind |-> "raise"],
     [kind |-> "object", score_kind |-> "number", score |-> 100, decision |-> "SAFE"],
     [kind |-> "object", score_kind |-> "number", score |-> 900, decision |-> "SUSPECT"]}

RunIO(entry, outcome) == [kind |-> "run", entry |-> entry, outcome |-> outcome]

\* a tool call between its read of the row and its last write: the tool,
\* the statement it runs next, its ClaimState and the investigator it selected
ToolCall(tool, at, st, inv) == [tool |-> tool, at |-> at, st |-> st, inv |-> inv]

MaxCalls == 2   \* tool calls in flight at a time

MaxServed == 3  \* calls and graph runs served on the row, over the whole behaviour

CallsInFlight == BagToSet(pc.calls)

CanServe == pc.graph = "idle" /\ BagCardinality(pc.calls) < MaxCalls

CanStart == CanServe /\ pc.served < MaxServed

StartCall(c) ==
    pc' = [pc EXCEPT !.calls = @ (+) SetToBag({c}), !.served = @ + 1]

MoveCall(c, d) == pc' = [pc EXCEPT !.calls = (@ (-) SetToBag({c})) (+) SetToBag({d})]

EndCall(c) == pc' = [pc EXCEPT !.calls = @ (-) SetToBag({c})]

Init ==
    /\ facts \in FactsP
    /\ state = NewClaimState(facts.claim_type)
    /\ db = NoRow
    /\ pc = [graph |-> "idle", calls |-> EmptyBag, served |-> 0]
    /\ op = "init"
    /\ io = NoIO

\* ClaimRegistrationTool: a new claim, registered
ToolRegister ==
    /\ CanServe /\ db.status = "NO_ROW"
    /\ state' = registration_agent(NewClaimState(LowerStrip(facts.claim_type)))
    /\ db' = [upsert_claim_registration(db, LowerStrip(facts.claim_type)) EXCEPT
                 !.status = "REGISTERED"]
    /\ op' = "ClaimRegistrationTool"
    /\ io' = RunIO("ClaimRegistrationTool", "done")
    /\ UNCHANGED <<facts, pc>>

\* ClaimLLMValidationTool up to its write: the row is read and the state
\* built from it validated, while the LLM requests are under way the row
\* may change
ToolValidate ==
    /\ CanServe
    /\ op' = "ClaimLLMValidationTool"
    /\ UNCHANGED <<facts, db>>
    /\ \/ /\ db.status = "NO_ROW"
          /\ state' = NewClaimState("")
          /\ io' = RunIO("ClaimLLMValidationTool", "error")
          /\ UNCHANGED pc
       \/ /\ db.status # "NO_ROW" /\ CanStart
          /\ \E t \in TextRepliesP, r \in FullRepliesP :
                StartCall(ToolCall("ClaimLLMValidationTool", "write",
                    llm_validation_agent(build_state_from_db(db), facts, t, r),
                    None))
          /\ UNCHANGED <<state, io>>

\* ClaimLLMValidationTool: the closing update_claim_fields
ToolValidateWrite ==
    /\ \E c \in CallsInFlight :
          /\ c.tool = "ClaimLLMValidationTool"
          /\ db' = ValidationColumns(db, c.st)
          /\ state' = c.st
          /\ EndCall(c)
    /\ io' = RunIO("ClaimLLMValidationTool", "done")
    /\ op' = "ClaimLLMValidationTool"
    /\ UNCHANGED facts

\* FraudCheckTool up to its write
ToolFraud ==
    /\ CanServe
    /\ op' = "FraudCheckTool"
    /\ UNCHANGED <<facts, db>>
    /\ \/ /\ db.status = "NO_ROW"
          /\ state' = NewClaimState("")
          /\ io' = RunIO("FraudCheckTool", "error")
          /\ UNCHANGED pc
       \/ /\ db.status # "NO_ROW" /\ CanStart
          /\ \E reply \in FraudRepliesP :
                StartCall(ToolCall("FraudCheckTool", "write",
                    fraud_agent(build_state_from_db(db), facts, reply), None))
          /\ UNCHANGED <<state, io>>

\* FraudCheckTool: the closing update_claim_fields
ToolFraudWrite ==
    /\ \E c \in CallsInFlight :
          /\ c.tool = "FraudCheckTool"
          /\ db' = FraudColumns(db, c.st)
          /\ state' = c.st
          /\ EndCall(c)
    /\ io' = RunIO("FraudCheckTool", "done")
    /\ op' = "FraudCheckTool"
    /\ UNCHANGED facts

\* steps 1 to 4 of ManagerProcessingTool on the row that is read: validate
\* unless validated, score if the documents are in order
ProcessingScored(row, f, t, r, reply) ==
    LET s0 == build_state_from_db(row)
        s1 == IF ~s0.claim_validated THEN llm_validation_agent(s0, f, t, r) ELSE s0
    IN  IF DocsOkOf(s1)
        THEN [fraud_agent(s1, f, reply) EXCEPT !.fraud_checked = TRUE]
        ELSE s1

\* the comparison that opens step 5
ProcessingEscalates(st) ==
    Val(st.fraud_score) >= FRAUD_ESCALATION /\ st.fraud_checked

\* ManagerProcessingTool up to the comparison of step 5: the row is read,
\* the state validated and scored; every later statement of the call is a
\* transaction of its own
ToolManagerProcessing ==
    /\ CanServe
    /\ op' = "ManagerProcessingTool"
    /\ UNCHANGED <<facts, db>>
    /\ \/ /\ db.status = "NO_ROW"
          /\ io' = RunIO("ManagerProcessingTool", "error")
          /\ UNCHANGED <<state, pc>>
       \/ /\ db.status # "NO_ROW" /\ CanStart
          /\ \E t \in TextRepliesP, r \in FullRepliesP, reply \in FraudRepliesP :
             \E s2 \in {ProcessingScored(db, facts, t, r, reply)} :
                IF s2.fraud_score = None
                THEN /\ state' = s2
                     /\ io' = RunIO("ManagerProcessingTool", "TypeError")
                     /\ UNCHANGED pc
                ELSE /\ StartCall(ToolCall("ManagerProcessingTool",
                            IF ProcessingEscalates(s2) THEN "select" ELSE "decide",
                            s2, None))
                     /\ UNCHANGED <<state, io>>

\* investigator_agent in ManagerProcessingTool: get_available_investigator
ProcessingSelect ==
    /\ \E c \in CallsInFlight :
          /\ c.tool = "ManagerProcessingTool" /\ c.at = "select"
          /\ IF InvestigatorAssigns(c.st, db)
             THEN MoveCall(c, [c EXCEPT !.at = "increment",
                        !.inv = get_available_investigator(db, c.st.claim_type)])
             ELSE MoveCall(c, [c EXCEPT !.at = "decide"])
    /\ op' = "get_available_investigator"
    /\ UNCHANGED <<facts, state, db, io>>

\* increment_investigator_load
ProcessingIncrement ==
    /\ \E c \in CallsInFlight :
          /\ c.tool = "ManagerProcessingTool" /\ c.at = "increment"
          /\ MoveCall(c, [c EXCEPT !.at = "record"])
    /\ db' = [db EXCEPT !.investigator_load = @ + 1]
    /\ op' = "increment_investigator_load"
    /\ UNCHANGED <<facts, state, io>>

\* record_assignment, then the assignment on the state
ProcessingRecord ==
    /\ \E c \in CallsInFlight :
          /\ c.tool = "ManagerProcessingTool" /\ c.at = "record"
          /\ db' = [db EXCEPT !.assignment_rows = @ + 1, !.investigator_id = c.inv]
          /\ MoveCall(c, [c EXCEPT !.at = "decide", !.st.assignment = c.inv])
    /\ op' = "record_assignment"
    /\ UNCHANGED <<facts, state, io>>

\* manager_node in ManagerProcessingTool: finalize_claim and its update
ProcessingDecide ==
    /\ \E c \in CallsInFlight :
          /\ c.tool = "ManagerProcessingTool" /\ c.at = "decide"
          /\ db' = PersistDecision(db, c.st, finalize_claim(c.st))
          /\ MoveCall(c, [c EXCEPT !.at = "write", !.st = finalize_claim(c.st)])
    /\ op' = "finalize_claim"
    /\ UNCHANGED <<facts, state, io>>

\* ManagerProcessingTool: the closing update_claim_fields
ProcessingWrite ==
    /\ \E c \in CallsInFlight :
          /\ c.tool = "ManagerProcessingTool" /\ c.at = "write"
          /\ db' = ProcessingColumns(db, c.st)
          /\ state' = c.st
          /\ EndCall(c)
    /\ io' = RunIO("ManagerProcessingTool", "done")
    /\ op' = "ManagerProcessingTool"
    /\ UNCHANGED facts

\* ManagerDecisionTool: an error for a decision outside the valid three,
\* otherwise one update_claim_fields, whether the transaction has a row or not
ToolManagerDecision ==
    /\ CanStart
    /\ \E d \in OverrideInputs :
          /\ db' = ManagerDecisionTool(db, d)
          /\ io' = RunIO("ManagerDecisionTool",
                         IF ValidDecision(d) THEN "done" ELSE "error")
    /\ pc' = [pc EXCEPT !.served = @ + 1]
    /\ op' = "ManagerDecisionTool"
    /\ UNCHANGED <<facts, state>>

\* the compiled graph is invoked on a new ClaimState or on the stored claim,
\* while no tool call is in flight
GraphStart ==
    /\ CanStart /\ pc.calls = EmptyBag
    /\ \E entry \in {"register", "validate"} :
          /\ pc' = [pc EXCEPT !.graph = entry, !.served = @ + 1]
          /\ io' = RunIO(entry, "running")
    /\ \/ state' = NewClaimState(facts.claim_type)
       \/ db.status # "NO_ROW" /\ state' = build_state_from_db(db)
    /\ op' = "graph"
    /\ UNCHANGED <<facts, db>>

GraphRegister ==
    /\ pc.graph = "register"
    /\ state' = registration_agent(state)
    /\ db' = upsert_claim_registration(db, state.claim_type)
    /\ pc' = [pc EXCEPT !.graph = "validate"]
    /\ op' = "registration_agent"
    /\ UNCHANGED <<facts, io>>

GraphValidate ==
    /\ pc.graph = "validate"
    /\ \E t \in TextRepliesP, r \in FullRepliesP :
          state' = llm_validation_agent(state, facts, t, r)
    /\ pc' = [pc EXCEPT !.graph = route_after_validation(state')]
    /\ op' = "llm_validation_agent"
    /\ UNCHANGED <<facts, db, io>>

GraphFraud ==
    /\ pc.graph = "fraud"
    /\ \E reply \in FraudRepliesP : state' = fraud_agent_safe(state, facts, reply)
    /\ pc' = [pc EXCEPT !.graph = "manager"]
    /\ op' = "fraud_agent_safe"
    /\ UNCHANGED <<facts, db, io>>

GraphManager ==
    /\ pc.graph = "manager"
    /\ state' = finalize_claim(state)
    /\ db' = PersistDecision(db, state, state')
    /\ pc' = [pc EXCEPT !.graph = "idle"]
    /\ op' = "manager_node"
    /\ io' = [io EXCEPT !.outcome = "done"]
    /\ UNCHANGED facts

Next ==
    \/ ToolRegister \/ ToolManagerDecision
    \/ ToolValidate \/ ToolValidateWrite
    \/ ToolFraud \/ ToolFraudWrite
    \/ ToolManagerProcessing \/ ProcessingSelect \/ ProcessingIncrement
    \/ ProcessingRecord \/ ProcessingDecide \/ ProcessingWrite
    \/ GraphStart \/ GraphRegister \/ GraphValidate \/ GraphFraud \/ GraphManager

Spec == Init /\ [][Next]_vars

\* a run of the pipeline has ended
RunEnded ==
    /\ pc.graph = "idle" /\ io.kind = "run" /\ io.outcome = "done"
    /\ io.entry \in {"register", "validate", "ManagerProcessingTool"}

\* C8: a motor claim whose FIR, RC and policy sections hold two or more
\* registration tokens never ends a run of the pipeline as APPROVED.
C8_MismatchNeverApproved ==
    (RunEnded /\ LowerStrip(facts.claim_type) = "motor" /\ SectionRegs(facts) >= 2) =>
        state.final_decision # "APPROVED"

(***************************************************************************)
(* Further properties of the validator (SpecValidate)                      *)
(***************************************************************************)
ExpiredLicenseFound == MotorValidated /\ E_DL \in Merged.errors

\* C11 as stated: with 'Driving License invalid/expired' among the merged
\* errors docs_ok is false, and the decision is REJECTED when nothing is
\* missing and PENDING_DOCUMENTS otherwise.
C11_ExpiredLicenseRejected ==
    ExpiredLicenseFound =>
        /\ ~Merged.docs_ok
        /\ pc = "end" =>
              state.final_decision =
                  IF Merged.required_missing = {} THEN "REJECTED"
                  ELSE "PENDING_DOCUMENTS"

\* C11: with 'Driving License invalid/expired' among the merged errors
\* docs_ok is false and the recommendation REJECT, and the decision is
\* PENDING_DOCUMENTS whether or not a document is missing.
C11_ExpiredLicensePending ==
    ExpiredLicenseFound =>
        /\ ~Merged.docs_ok
        /\ Merged.recommendation = "REJECT"
        /\ pc = "end" => state.final_decision = "PENDING_DOCUMENTS"

\* an expired license on a claim with every document present, decided
C11_Witness ==
    /\ ExpiredLicenseFound /\ pc = "end"
    /\ E_DL \in ToSet(io.pre.errors)
    /\ Merged.required_missing = {}
    /\ state.final_decision = "PENDING_DOCUMENTS"

\* C12: on every input (empty fields, any claim type, every behaviour of the
\* two LLM passes) llm_validation_agent returns normally, with a non-empty
\* note and a recommendation among APPROVE, NEED_MORE_DOCUMENTS and REJECT.
C12_AlwaysReturnsFindings ==
    op = "llm_validation_agent" =>
        /\ io.kind = "validation"
        /\ state.validation # None
        /\ Merged.note # <<>>
        /\ Merged.recommendation \in Recommendations

\* C13: whenever one of the two LLM passes fails (its call raises or its
\* output cannot be parsed) the validator still returns, and the errors of
\* the ValidationResult hold an error string for the pass that failed.
C13_FailedPassSurfaced ==
    MotorValidated =>
        /\ state.validation # None
        /\ io.text_only.kind # "object" => E_TEXT_ONLY_FAILED \in Merged.errors
        /\ io.full.kind # "object" =>
              Merged.errors \cap {E_CALL_FAILED, E_AI_FAILED} # {}

(***************************************************************************)
(* SpecRerun: ManagerProcessingTool called twice on one claim with the     *)
(* same facts and the same replies.  The second call is served after the   *)
(* first has returned or while it is under way; the statements of the      *)
(* calls in flight interleave (pc.calls), as do those of a single-step     *)
(* tool called before the first run.                                       *)
(***************************************************************************)
FactsR ==
    {DatedFacts, WithMarkers(DatedFacts, Labels \ {"FIR"}),
     WithIssue(DatedFacts, "dl_expired"), WithIssue(DatedFacts, "name"),
     [DatedFacts EXCEPT !.claim_type = "health"]}

TextRepliesR ==
    {[kind |-> "raise"]} \cup
    {[kind |-> "object",
      docs |-> [l \in Labels |-> IF l = "FIR" THEN e ELSE AbsentDoc],
      warnings |-> {}, errors |-> {}] :
        e \in {AbsentDoc, DocEntry(TRUE, 800, TRUE)}}

FullRepliesR ==
    {[kind |-> "garbage"],
     [kind |-> "object", required_missing |-> {}, warnings |-> {}, errors |-> {},
      docs_ok |-> TRUE, recommendation |-> "APPROVE"],
     [kind |-> "object", required_missing |-> {"FIR"}, warnings |-> {"Check inflation"},
      errors |-> {}, docs_ok |-> FALSE, recommendation |-> "NEED_MORE_DOCUMENTS"]}

FraudRepliesR ==
    {[kind |-> "raise"],
     [kind |-> "object", score_kind |-> "number", score |-> 100, decision |-> "SAFE"],
     [kind |-> "object", score_kind |-> "number", score |-> 650, decision |-> "SUSPECT"],
     [kind |-> "object", score_kind |-> "number", score |-> 900, decision |-> "SUSPECT"]}

InitRerun ==
    /\ facts \in FactsR
    /\ state = NewClaimState(facts.claim_type)
    /\ db = [upsert_claim_registration(NoRow, LowerStrip(facts.claim_type)) EXCEPT
                !.status = "REGISTERED"]
    /\ pc = [calls |-> EmptyBag, tool |-> FALSE, runs |-> 0, replies |-> None,
             before |-> None, first |-> None]
    /\ op = "init"
    /\ io = NoIO

\* a call of ManagerProcessingTool in flight: the run it is, the row it
\* read, and whether it read the row the first run left with no call under way
ProcessingCall(at, st, run, row) ==
    ToolCall("ManagerProcessingTool", at, st, None) @@
        [run |-> run, before |-> row,
         sequential |-> (pc.calls = EmptyBag /\ pc.first = Some(row))]

ProcessingIO(kind, outcome, row, sequential) ==
    [kind |-> kind, outcome |-> outcome,
     text_only |-> Val(pc'.replies)[1], full |-> Val(pc'.replies)[2],
     reply |-> Val(pc'.replies)[3],
     before |-> Val(pc'.before), first |-> row, sequential |-> sequential]

\* one of the single-step tools is called on the claim before the
\* processing: its read of the row and its LLM requests
RToolBefore ==
    /\ pc.runs = 0 /\ ~pc.tool
    /\ \/ \E t \in TextRepliesR, r \in FullRepliesR :
             /\ pc' = [pc EXCEPT !.tool = TRUE, !.calls = @ (+) SetToBag({
                        ToolCall("ClaimLLMValidationTool", "write",
                            llm_validation_agent(build_state_from_db(db), facts, t, r),
                            None)})]
             /\ op' = "ClaimLLMValidationTool"
       \/ \E reply \in FraudRepliesR :
             /\ pc' = [pc EXCEPT !.tool = TRUE, !.calls = @ (+) SetToBag({
                        ToolCall("FraudCheckTool", "write",
                            fraud_agent(build_state_from_db(db), facts, reply),
                            None)})]
             /\ op' = "FraudCheckTool"
    /\ UNCHANGED <<facts, state, db, io>>

\* the first call of ManagerProcessingTool, up to the comparison of step 5:
\* the TypeError ends it with nothing written, and no second call follows
RFirstRun ==
    /\ pc.runs = 0
    /\ \E t \in TextRepliesR, r \in FullRepliesR, reply \in FraudRepliesR :
       \E s2 \in {ProcessingScored(db, facts, t, r, reply)} :
          IF s2.fraud_score = None
          THEN /\ pc' = [pc EXCEPT !.runs = 2, !.replies = Some(<<t, r, reply>>),
                                   !.before = Some(db)]
               /\ state' = s2
               /\ io' = ProcessingIO("processing", "TypeError", db, FALSE)
          ELSE /\ pc' = [pc EXCEPT !.runs = 1, !.replies = Some(<<t, r, reply>>),
                                   !.before = Some(db),
                                   !.calls = @ (+) SetToBag({ProcessingCall(
                                       IF ProcessingEscalates(s2) THEN "select"
                                       ELSE "decide", s2, 1, db)})]
               /\ UNCHANGED <<state, io>>
    /\ op' = "ManagerProcessingTool"
    /\ UNCHANGED <<facts, db>>

\* the second call, with the same replies, up to the comparison of step 5
RSecondRun ==
    /\ pc.runs = 1
    /\ \E s2 \in {ProcessingScored(db, facts, Val(pc.replies)[1],
                                    Val(pc.replies)[2], Val(pc.replies)[3])} :
          IF s2.fraud_score = None
          THEN /\ pc' = [pc EXCEPT !.runs = 2]
               /\ state' = s2
               /\ io' = ProcessingIO("rerun", "TypeError", db,
                                     pc.calls = EmptyBag /\ pc.first = Some(db))
          ELSE /\ pc' = [pc EXCEPT !.runs = 2,
                                   !.calls = @ (+) SetToBag({ProcessingCall(
                                       IF ProcessingEscalates(s2) THEN "select"
                                       ELSE "decide", s2, 2, db)})]
               /\ UNCHANGED <<state, io>>
    /\ op' = "ManagerProcessingTool"
    /\ UNCHANGED <<facts, db>>

\* the closing update_claim_fields of a call of ManagerProcessingTool
RWrite ==
    /\ \E c \in CallsInFlight :
          /\ c.tool = "ManagerProcessingTool" /\ c.at = "write"
          /\ db' = ProcessingColumns(db, c.st)
          /\ state' = c.st
          /\ pc' = [pc EXCEPT !.calls = @ (-) SetToBag({c}),
                              !.first = IF c.run = 1 THEN Some(db') ELSE @]
          /\ io' = ProcessingIO(IF c.run = 1 THEN "processing" ELSE "rerun",
                                "done", c.before, c.sequential)
    /\ op' = "ManagerProcessingTool"
    /\ UNCHANGED facts

NextRerun ==
    \/ RToolBefore \/ ToolValidateWrite \/ ToolFraudWrite
    \/ RFirstRun \/ RSecondRun
    \/ ProcessingSelect \/ ProcessingIncrement \/ ProcessingRecord
    \/ ProcessingDecide \/ RWrite

SpecRerun == InitRerun /\ [][NextRerun]_vars

\* C14: the second run of the pipeline, on the same facts and replies and
\* from the row the first run persisted (the first call has returned and no
\* other call is under way), completes and leaves the same Findings, the
\* same fraud score and the same final decision.
C14_RerunIdempotent ==
    (io.kind = "rerun" /\ io.sequential) =>
        /\ io.outcome = "done"
        /\ db.validation = io.first.validation
        /\ db.fraud_score = io.first.fraud_score
        /\ db.final_decision = io.first.final_decision

\* a rerun that validated again, while the first run had raised the score
\* across the confidence-threshold split and accepted the FIR on a
\* text-only assertion below the higher threshold
C14_Witness ==
    /\ io.kind = "rerun" /\ io.sequential
    /\ ~io.first.claim_validated
    /\ io.before.fraud_score = None
    /\ Val(io.first.fraud_score) >= TAU_FRAUD_SPLIT
    /\ "FIR" \notin facts.markers
    /\ io.text_only.kind = "object" /\ io.text_only.docs["FIR"].present
    /\ io.full.kind = "object" /\ "FIR" \in io.full.required_missing
    /\ db.final_decision # NoStr

(***************************************************************************)
(* The merge of warnings and errors (SpecValidate)                         *)
(***************************************************************************)
UnitedWarnings ==
    ToSet(io.pre.warnings) \cup SafeLlmFullLoads(io.full).warnings
        \cup SafeLlmTextOnlyLoads(io.text_only).warnings

UnitedErrors ==
    ToSet(io.pre.errors) \cup SafeLlmFullLoads(io.full).errors
        \cup SafeLlmTextOnlyLoads(io.text_only).errors

TreatedPresent(l) == l \notin Merged.required_missing

\* C15 as stated: the merged warnings and errors are within the union of the
\* three sources, and for a document treated as present its stale entry
\* ('FIR not found', 'Repair estimate not provided or unclear', 'Driving
\* License details unclear', 'Policy details unclear') does not remain.
C15_NoStaleEntryOfFour ==
    MotorValidated =>
        /\ Merged.warnings \subseteq UnitedWarnings
        /\ Merged.errors \subseteq UnitedErrors
        /\ TreatedPresent("FIR") => E_FIR \notin Merged.errors
        /\ TreatedPresent("REPAIR_ESTIMATE") => W_EST_MISSING \notin Merged.warnings
        /\ TreatedPresent("DRIVING_LICENSE") => W_DL_UNCLEAR \notin Merged.warnings
        /\ TreatedPresent("POLICY_COPY") => W_POL_UNCLEAR \notin Merged.warnings

\* C15: the merged errors are the union of the three sources less 'FIR not
\* found' when the FIR is treated as present, and the merged warnings the
\* union less, when the estimate is treated as present, every warning that
\* reads 'repair estimate not provided or unclear' once trimmed and
\* lower-cased; nothing else is removed.
C15_UnionLessTwoStaleEntries ==
    MotorValidated =>
        /\ Merged.errors =
              UnitedErrors \ (IF TreatedPresent("FIR") THEN {E_FIR} ELSE {})
        /\ \A w \in UnitedWarnings :
              w \in Merged.warnings <=>
                 ~(/\ TreatedPresent("REPAIR_ESTIMATE")
                   /\ LowerStrip(w) = LowerStrip(W_EST_MISSING))
        /\ Merged.warnings \subseteq UnitedWarnings

\* the marker scan reported 'FIR not found', a pass vouched for the FIR, and
\* the merged errors no longer hold the entry
C15_Witness ==
    /\ MotorValidated
    /\ E_FIR \in ToSet(io.pre.errors)
    /\ TreatedPresent("FIR")
    /\ E_FIR \notin Merged.errors
    /\ Merged.errors # {}

\* the three sources of one validation, as the merge receives them
ParsedTextOnly == SafeLlmTextOnlyLoads(io.text_only)

ParsedFull == SafeLlmFullLoads(io.full)

Without(seq, x) == SelectSeq(seq, LAMBDA y : y # x)

\* the merges obtained by taking one warning or one error away from one
\* source, everything else (the presence signals included) as it was
MergesWithOneFindingLess ==
    {MergeFindings([io.pre EXCEPT !.warnings = Without(@, x)],
                   ParsedTextOnly, ParsedFull, io.fraud_score) :
        x \in ToSet(io.pre.warnings)}
    \cup {MergeFindings([io.pre EXCEPT !.errors = Without(@, x)],
                        ParsedTextOnly, ParsedFull, io.fraud_score) :
             x \in ToSet(io.pre.errors)}
    \cup {MergeFindings(io.pre, [ParsedTextOnly EXCEPT !.warnings = @ \ {x}],
                        ParsedFull, io.fraud_score) :
             x \in ParsedTextOnly.warnings}
    \cup {MergeFindings(io.pre, [ParsedTextOnly EXCEPT !.errors = @ \ {x}],
                        ParsedFull, io.fraud_score) :
             x \in ParsedTextOnly.errors}
    \cup {MergeFindings(io.pre, ParsedTextOnly,
                        [ParsedFull EXCEPT !.warnings = @ \ {x}], io.fraud_score) :
             x \in ParsedFull.warnings}
    \cup {MergeFindings(io.pre, ParsedTextOnly,
                        [ParsedFull EXCEPT !.errors = @ \ {x}], io.fraud_score) :
             x \in ParsedFull.errors}

\* C16: with the presence signals fixed, taking a warning or an error away
\* from any one source never adds an element to the merged warnings or
\* errors: the merged sets of the reduced input are subsets of the old ones.
C16_MergeMonotone ==
    MotorValidated =>
        \A m \in MergesWithOneFindingLess :
            /\ m.warnings \subseteq Merged.warnings
            /\ m.errors \subseteq Merged.errors
            /\ m.required_missing = Merged.required_missing

\* a validation whose sources hold warnings and errors, one of which is the
\* only warning of the merge, so that taking it away empties the merged set
C16_Witness ==
    /\ MotorValidated
    /\ Cardinality(Merged.warnings) = 1
    /\ ParsedFull.warnings = Merged.warnings
    /\ Len(io.pre.errors) > 0
    /\ \E m \in MergesWithOneFindingLess : m.warnings = {}
    /\ \E m \in MergesWithOneFindingLess : m.errors # Merged.errors

(***************************************************************************)
(* The deterministic pre-validation (SpecValidate)                         *)
(***************************************************************************)
\* C17: the pre-validation's recommendation is NEED_MORE_DOCUMENTS when a
\* document is missing, otherwise REJECT on any error of the critical set,
\* otherwise APPROVE; its docs_ok is true exactly when it found no error and
\* no missing document; its note is never empty.
C17_PreRecommendation ==
    MotorValidated =>
        LET pre == io.pre
            critical == ToSet(pre.errors) \cap
                          {"FIR not found", "Driving License invalid/expired",
                           "Policy expired or not covering OD",
                           "RC/Policy/FIR vehicle mismatch",
                           "Claim narrative inconsistent with FIR",
                           "Fake or unverifiable repair estimate"}
        IN  /\ pre.required_missing # {} => pre.recommendation = "NEED_MORE_DOCUMENTS"
            /\ pre.required_missing = {} /\ critical # {} => pre.recommendation = "REJECT"
            /\ pre.required_missing = {} /\ critical = {} => pre.recommendation = "APPROVE"
            /\ pre.docs_ok <=> (pre.errors = <<>> /\ pre.required_missing = {})
            /\ pre.note # <<>>

\* a pre-validation that found a document missing and, with it, a critical
\* error
C17_Witness ==
    /\ MotorValidated
    /\ io.pre.required_missing # {}
    /\ E_FIR \in ToSet(io.pre.errors)
    /\ io.pre.recommendation = "NEED_MORE_DOCUMENTS"
    /\ ~io.pre.docs_ok

\* the dates written in the narrative and in the FIR body, bare or within
\* other text
DatesWritten ==
    {d.day : d \in {x \in {facts.desc_date} : x.form # "none"}}
    \cup {d.day : d \in {x \in {facts.fir_date} :
                            x.form # "none" /\ BlockPresent(facts, "FIR")}}

\* C18: whenever the narrative or the FIR body contains an incident date in
\* a supported format, possibly surrounded by other text, and the license
\* section's 'Valid To' date is earlier, the pre-validation adds the error
\* 'Driving License invalid/expired'.
C18_ExpiredLicenseDetected ==
    ( /\ MotorValidated
      /\ BlockPresent(facts, "DRIVING_LICENSE")
      /\ facts.dl_valid_to # None
      /\ \A d \in DatesWritten : Val(facts.dl_valid_to) < d
      /\ DatesWritten # {} )
    => E_DL \in ToSet(io.pre.errors)

(***************************************************************************)
(* Further properties of the fraud scorer (SpecFraud)                      *)
(***************************************************************************)
\* C19: on a claim whose type, trimmed and lower-cased, is not 'motor',
\* fraud_agent leaves fraud_checked, fraud_score and fraud_decision exactly
\* as they were and does not call the LLM.
C19_NonMotorUntouched ==
    (op = "fraud_agent" /\ LowerStrip(io.before.claim_type) # "motor") =>
        /\ state.fraud_checked = io.before.fraud_checked
        /\ state.fraud_score = io.before.fraud_score
        /\ state.fraud_decision = io.before.fraud_decision
        /\ ~io.llm_called

\* a health claim that carried the fields of an earlier scoring through the
\* scorer
C19_Witness ==
    /\ op = "fraud_agent"
    /\ io.before.claim_type = "health"
    /\ io.reply.kind = "object"
    /\ state.fraud_checked /\ state.fraud_score = Some(450)
    /\ state.fraud_decision = "MODERATE"

\* C20: a motor claim whose validation has no missing document, no warning
\* and no error, and for which the LLM estimates a score below 0.3, leaves
\* the scorer with fraud_checked true, decision SAFE and a score in [0, 1].
C20_CleanLowEstimateSafe ==
    ( /\ MotorScored
      /\ io.before.validation # None
      /\ Val(io.before.validation).required_missing = {}
      /\ Val(io.before.validation).warnings = {}
      /\ Val(io.before.validation).errors = {}
      /\ io.reply.kind = "object" /\ io.reply.score_kind = "number"
      /\ io.reply.score \in 0..299 )
    => /\ state.fraud_checked
       /\ state.fraud_decision = "SAFE"
       /\ Score \in 0..1000

(***************************************************************************)
(* Further properties of the manager (SpecManager)                         *)
(***************************************************************************)
\* C21: on a claim without a prior decision whose recommendation is one of
\* APPROVE, REJECT and NEED_MORE_DOCUMENTS, finalize_claim follows the
\* decision table of the class: docs_ok false -> PENDING_DOCUMENTS;
\* otherwise fraud score >= 0.7 -> ESCALATED_TO_SIU; otherwise APPROVE ->
\* APPROVED, REJECT -> REJECTED, NEED_MORE_DOCUMENTS -> PENDING_DOCUMENTS.
C21_DocumentedTable ==
    ( /\ Finalized /\ io.before.final_decision = NoStr
      /\ io.before.validation # None
      /\ Upper(Val(io.before.validation).recommendation) \in Recommendations )
    => LET b == io.before
           rec == Upper(Val(b.validation).recommendation)
           score == IF b.fraud_score = None THEN 0 ELSE Val(b.fraud_score)
       IN  state.final_decision =
              IF ~Val(b.validation).docs_ok THEN "PENDING_DOCUMENTS"
              ELSE IF score >= 700 THEN "ESCALATED_TO_SIU"
              ELSE IF rec = "APPROVE" THEN "APPROVED"
              ELSE IF rec = "REJECT" THEN "REJECTED"
              ELSE "PENDING_DOCUMENTS"

(***************************************************************************)
(* Further properties of ManagerProcessingTool (SpecRerun)                 *)
(***************************************************************************)
\* C22: for a registered claim whose validation yields docs_ok false, a
\* newly registered claim without a stored fraud score included,
\* ManagerProcessingTool completes without raising and persists
\* final_decision and status PENDING_DOCUMENTS, the fraud fields untouched.
C22_IncompleteDocsPending ==
    ( /\ io.kind = "processing" /\ op = "ManagerProcessingTool"
      /\ state.validation # None /\ ~Val(state.validation).docs_ok )
    => /\ io.outcome = "done"
       /\ db.final_decision = "PENDING_DOCUMENTS"
       /\ db.status = "PENDING_DOCUMENTS"
       /\ db.fraud_score = io.before.fraud_score

(***************************************************************************)
(* UpdateDocumentExtractedTextTool: the stored OCR text as a sequence of   *)
(* characters; "LF" is a line feed, "CRLF" a carriage return + line feed,  *)
(* "SP" a blank                                                            *)
(***************************************************************************)
MaxTextLen == 2      \* characters of an uploaded text
MaxStoredLen == 12   \* characters of the stored text

Whitespace == {"SP", "LF", "CRLF"}

\* str.replace("\r\n", "\n")
ReplaceCrLf(text) == [i \in 1..Len(text) |-> IF text[i] = "CRLF" THEN "LF" ELSE text[i]]

RECURSIVE LStrip(_)
LStrip(text) ==
    IF text # <<>> /\ Head(text) \in Whitespace THEN LStrip(Tail(text)) ELSE text

RECURSIVE RStrip(_)
RStrip(text) ==
    IF text # <<>> /\ text[Len(text)] \in Whitespace
    THEN RStrip(SubSeq(text, 1, Len(text) - 1)) ELSE text

\* str.strip()
Strip(text) == RStrip(LStrip(text))

\* (value or "")
OrEmpty(opt) == IF opt = None THEN <<>> ELSE Val(opt)

\* the separator of merge mode
MergeSeparator == <<"LF", "LF", "-", "-", "-", "LF", "LF">>

\* merge mode that replaces the stored text: a variant that C23 tells apart
\* from the code's
FinalTextReplacing(existing, new_text, overwrite) ==
    IF new_text # <<>> THEN new_text ELSE existing

\* step 2 of the tool: the text to save
FinalText(existing, new_text, overwrite) ==
    IF overwrite THEN (IF new_text # <<>> THEN new_text ELSE existing)
    ELSE IF new_text = <<>> THEN existing
    ELSE IF existing = <<>> THEN new_text
    ELSE existing \o MergeSeparator \o new_text

\* the text the tool is given, line ends normalised and trimmed
NewText(extracted_text) == Strip(ReplaceCrLf(extracted_text))

\* steps 1 and 2 of the tool on the row it reads: the text to save
TextToSave(row, new_text, overwrite) ==
    FinalText(Strip(OrEmpty(row.document_extracted_text)), new_text, overwrite)

\* step 3 of the tool, on the row as it is when the UPDATE runs: the status
\* is set and the column written when there is something to save
DocumentUpdates(row, final_text) ==
    IF final_text # <<>>
    THEN [row EXCEPT !.status = "DOCUMENTS_UPLOADED",
                     !.document_extracted_text = Some(final_text)]
    ELSE [row EXCEPT !.status = "DOCUMENTS_UPLOADED"]

MaxUploads == 2  \* calls of the tool served on the row

TextChars == {"a", "b", "SP", "CRLF"}

RECURSIVE TextsOfLen(_)
TextsOfLen(n) ==
    IF n = 0 THEN {<<>>}
    ELSE {Append(t, c) : t \in TextsOfLen(n - 1), c \in TextChars}

UploadedTexts == UNION {TextsOfLen(n) : n \in 0..MaxTextLen}

InitDocs ==
    /\ facts = DatedFacts
    /\ state = NewClaimState("motor")
    /\ db = NoRow
    /\ pc = [calls |-> EmptyBag, served |-> 0]
    /\ op = "init"
    /\ io = NoIO

\* ClaimRegistrationTool stores the row
DRegister ==
    /\ db.status = "NO_ROW"
    /\ db' = [upsert_claim_registration(db, "motor") EXCEPT !.status = "REGISTERED"]
    /\ state' = registration_agent(NewClaimState("motor"))
    /\ op' = "ClaimRegistrationTool"
    /\ io' = NoIO
    /\ UNCHANGED <<facts, pc>>

\* a call of UpdateDocumentExtractedTextTool up to its UPDATE: an error for
\* an unknown transaction, otherwise the row is read and the text to save
\* decided; the calls in flight interleave (pc.calls)
DUpdate ==
    /\ pc.served < MaxUploads
    /\ \E text \in UploadedTexts, overwrite \in BOOLEAN :
          IF db.status = "NO_ROW"
          THEN /\ io' = [kind |-> "update", new_text |-> NewText(text),
                         overwrite |-> overwrite,
                         before |-> db, stored |-> db, outcome |-> "error"]
               /\ pc' = [pc EXCEPT !.served = @ + 1]
          ELSE /\ Len(TextToSave(db, NewText(text), overwrite)) <= MaxStoredLen
               /\ pc' = [pc EXCEPT !.served = @ + 1,
                                   !.calls = @ (+) SetToBag({
                                       [new_text |-> NewText(text),
                                        overwrite |-> overwrite, before |-> db]})]
               /\ UNCHANGED io
    /\ op' = "UpdateDocumentExtractedTextTool"
    /\ UNCHANGED <<facts, state, db>>

\* the UPDATE of a call; io keeps the row the call read (before) and the row
\* the UPDATE found (stored)
DWrite ==
    /\ \E c \in CallsInFlight :
          /\ db' = DocumentUpdates(db, TextToSave(c.before, c.new_text, c.overwrite))
          /\ io' = [kind |-> "update", new_text |-> c.new_text,
                    overwrite |-> c.overwrite,
                    before |-> c.before, stored |-> db, outcome |-> "saved"]
          /\ pc' = [pc EXCEPT !.calls = @ (-) SetToBag({c})]
    /\ op' = "update_claim_fields"
    /\ UNCHANGED <<facts, state>>

NextDocs == DRegister \/ DUpdate \/ DWrite

SpecDocs == InitDocs /\ [][NextDocs]_vars

IsPrefix(s, t) == Len(s) <= Len(t) /\ SubSeq(t, 1, Len(s)) = s

IsSuffix(s, t) == Len(s) <= Len(t) /\ SubSeq(t, Len(t) - Len(s) + 1, Len(t)) = s

\* C23: a call for an unknown transaction returns an error and writes
\* nothing; for an existing one, a stored text that was non-empty stays
\* non-empty and overwrite with a non-empty text stores exactly that text
\* (line ends normalised, trimmed); in a sequence of calls, where the row a
\* call updates is the row it read, an empty or whitespace-only text leaves
\* the stored text unchanged in both modes, and merge with a non-empty text
\* keeps the existing text as a prefix and ends with the new text.
C23_TextNeverWiped ==
    io.kind = "update" =>
        LET old == io.stored.document_extracted_text
            new == db.document_extracted_text
            given == io.new_text
        IN  /\ given # <<>> => {given[1], given[Len(given)]} \cap Whitespace = {}
            /\ \A i \in 1..Len(given) : given[i] # "CRLF"
            /\ io.before.status = "NO_ROW" => io.outcome = "error" /\ db = io.before
            /\ io.before.status # "NO_ROW" =>
                  /\ io.outcome = "saved"
                  /\ OrEmpty(old) # <<>> => OrEmpty(new) # <<>>
                  /\ io.overwrite /\ given # <<>> => new = Some(given)
                  /\ io.stored = io.before =>
                        /\ given = <<>> => new = old
                        /\ ~io.overwrite /\ given # <<>> =>
                              /\ IsPrefix(OrEmpty(old), OrEmpty(new))
                              /\ IsSuffix(given, OrEmpty(new))
                              /\ Len(OrEmpty(new)) >= Len(OrEmpty(old)) + Len(given)

\* an upload merged onto the stored text that the call read
C23_Witness ==
    /\ io.kind = "update" /\ ~io.overwrite /\ io.stored = io.before
    /\ io.before.document_extracted_text = Some(<<"a">>)
    /\ io.new_text = <<"b">>
    /\ db.document_extracted_text = Some(<<"a">> \o MergeSeparator \o <<"b">>)

(***************************************************************************)
(* Further properties of the pipeline (Spec)                               *)
(***************************************************************************)
\* C24: in every run of the claim graph from 'register' on a motor claim
\* whose validation yields docs_ok true, the fraud scorer has scored the
\* claim (fraud_checked is true) when the manager node decides.
C24_ScoredBeforeDecision ==
    ( /\ op = "manager_node" /\ io.kind = "run" /\ io.entry = "register"
      /\ LowerStrip(facts.claim_type) = "motor"
      /\ state.validation # None /\ Val(state.validation).docs_ok )
    => state.fraud_checked

\* C25: whenever final_decision is APPROVED after a call of finalize_claim,
\* a call re-entering with an existing decision included, the claim's
\* current inputs satisfy the approval conditions: docs_ok true, the
\* recommendation neither NEED_MORE_DOCUMENTS nor REJECT, no warning, fraud
\* score below 0.70 and fraud decision not SUSPECT.
C25_ApprovedMeansApprovable ==
    (Finalized /\ state.final_decision = "APPROVED") =>
        /\ DocsOkOf(state)
        /\ RecOf(state) \notin {"NEED_MORE_DOCUMENTS", "REJECT"}
        /\ WarningsOf(state) = {}
        /\ FraudScoreOr0(state) < 700
        /\ Upper(state.fraud_decision) # "SUSPECT"

(***************************************************************************)
(* The parsers applied to LLM output (SpecParse)                           *)
(*                                                                         *)
(* A text is a sequence of tokens written one after the other, separated   *)
(* by a blank:                                                             *)
(*    "{"   {            "}"   }                                           *)
(*    "k"   "k":         "n"   1           "w"   ok                        *)
(*    "fo"  ```json and a line end          "fc"  ```                      *)
(*    "nb"  a no-break space (U+00A0)                                      *)
(***************************************************************************)
MaxTokens == 4

JsonTokens == {"{", "}", "k", "n", "w", "fo", "fc", "nb"}

RECURSIVE TokenTextsOfLen(_)
TokenTextsOfLen(n) ==
    IF n = 0 THEN {<<>>}
    ELSE {Append(s, t) : s \in TokenTextsOfLen(n - 1), t \in JsonTokens}

LlmTexts == UNION {TokenTextsOfLen(n) : n \in 0..MaxTokens}

\* json.loads accepts the text: a number, or an object that is empty or
\* holds one member whose value is again accepted
RECURSIVE JsonValid(_)
JsonValid(s) ==
    \/ s = <<"n">>
    \/ /\ Len(s) >= 2
       /\ s[1] = "{"
       /\ s[Len(s)] = "}"
       /\ \/ Len(s) = 2
          \/ /\ Len(s) >= 4
             /\ s[2] = "k"
             /\ JsonValid(SubSeq(s, 3, Len(s) - 1))

JsonIsDict(s) == JsonValid(s) /\ s[1] = "{"

ParseFallback == [kind |-> "fallback"]

ParsedObject(s) == [kind |-> "object", value |-> s]

\* str.find("{") and str.rfind("}") as token positions, 0 for -1
FindOpen(s) ==
    IF \E i \in 1..Len(s) : s[i] = "{"
    THEN CHOOSE i \in 1..Len(s) : s[i] = "{" /\ \A j \in 1..(i - 1) : s[j] # "{"
    ELSE 0

RFindClose(s) ==
    IF \E i \in 1..Len(s) : s[i] = "}"
    THEN CHOOSE i \in 1..Len(s) : s[i] = "}" /\ \A j \in (i + 1)..Len(s) : s[j] # "}"
    ELSE 0

\* _safe_json_loads of llm_validation_agent.py
safe_json_loads(s) ==
    IF JsonValid(s)
    THEN IF JsonIsDict(s) THEN ParsedObject(s) ELSE ParseFallback
    ELSE IF FindOpen(s) # 0 /\ RFindClose(s) # 0 /\ RFindClose(s) > FindOpen(s)
         THEN IF JsonValid(SubSeq(s, FindOpen(s), RFindClose(s)))
              THEN ParsedObject(SubSeq(s, FindOpen(s), RFindClose(s)))
              ELSE ParseFallback
         ELSE ParseFallback

\* str.strip(): leading and trailing no-break spaces go with the blanks
RECURSIVE StripText(_)
StripText(s) ==
    IF s = <<>> THEN s
    ELSE IF s[1] = "nb" THEN StripText(Tail(s))
    ELSE IF s[Len(s)] = "nb" THEN StripText(SubSeq(s, 1, Len(s) - 1))
    ELSE s

\* _normalize_text: a no-break space becomes a blank
NormalizeText(s) == SelectSeq(s, LAMBDA t : t # "nb")

\* _extract_first_balanced_json_object: the scan from token i on
RECURSIVE BalancedScan(_, _, _, _)
BalancedScan(s, i, depth, start_idx) ==
    IF i > Len(s) THEN None
    ELSE IF s[i] = "{"
         THEN BalancedScan(s, i + 1, depth + 1, IF depth = 0 THEN i ELSE start_idx)
    ELSE IF s[i] = "}" /\ depth > 0
         THEN IF depth = 1 /\ start_idx # 0
              THEN Some(SubSeq(s, start_idx, i))
              ELSE BalancedScan(s, i + 1, depth - 1, start_idx)
    ELSE BalancedScan(s, i + 1, depth, start_idx)

extract_first_balanced_json_object(s) == BalancedScan(s, 1, 0, 0)

\* the position of the first fence marker at or after token i, 0 if none
NextFence(s, i, markers) ==
    IF \E j \in i..Len(s) : s[j] \in markers
    THEN CHOOSE j \in i..Len(s) :
            s[j] \in markers /\ \A h \in i..(j - 1) : s[h] \notin markers
    ELSE 0

\* _extract_fenced_blocks: the contents, stripped, of the blocks FENCE_RE
\* finds from token i on; a block opens at ```json and closes at the next ```
RECURSIVE FencedBlocksFrom(_, _)
FencedBlocksFrom(s, i) ==
    IF NextFence(s, i, {"fo"}) = 0 THEN <<>>
    ELSE IF NextFence(s, NextFence(s, i, {"fo"}) + 1, {"fo", "fc"}) = 0 THEN <<>>
    ELSE <<StripText(SubSeq(s, NextFence(s, i, {"fo"}) + 1,
                  NextFence(s, NextFence(s, i, {"fo"}) + 1, {"fo", "fc"}) - 1))>>
         \o FencedBlocksFrom(s,
                  NextFence(s, NextFence(s, i, {"fo"}) + 1, {"fo", "fc"}) + 1)

extract_fenced_blocks(s) == FencedBlocksFrom(s, 1)

\* the first block whose whole content json.loads reads as an object
RECURSIVE FirstDictBlock(_)
FirstDictBlock(blocks) ==
    IF blocks = <<>> THEN None
    ELSE IF JsonIsDict(Head(blocks)) THEN Some(Head(blocks))
    ELSE FirstDictBlock(Tail(blocks))

\* the balanced object of a text, when json.loads reads it
BalancedDict(s) ==
    IF extract_first_balanced_json_object(s) # None
       /\ JsonValid(Val(extract_first_balanced_json_object(s)))
    THEN extract_first_balanced_json_object(s)
    ELSE None

\* the second pass over the blocks: whole content, then balanced extraction
RECURSIVE SecondPassBlock(_)
SecondPassBlock(blocks) ==
    IF blocks = <<>> THEN None
    ELSE IF JsonIsDict(Head(blocks)) THEN Some(Head(blocks))
    ELSE IF BalancedDict(Head(blocks)) # None THEN BalancedDict(Head(blocks))
    ELSE SecondPassBlock(Tail(blocks))

\* safe_json_parse(result, fallback, expect="object") of safe_json.py
safe_json_parse(result) ==
    IF StripText(result) = <<>> THEN ParseFallback
    ELSE LET s == NormalizeText(StripText(result))
             blocks == extract_fenced_blocks(s)
         IN  IF JsonIsDict(s) THEN ParsedObject(s)
             ELSE IF FirstDictBlock(blocks) # None
                  THEN ParsedObject(Val(FirstDictBlock(blocks)))
             ELSE IF SecondPassBlock(blocks) # None
                  THEN ParsedObject(Val(SecondPassBlock(blocks)))
             ELSE IF BalancedDict(s) # None
                  THEN ParsedObject(Val(BalancedDict(s)))
             ELSE ParseFallback

InitParse ==
    /\ facts \in {[text |-> t] : t \in LlmTexts}
    /\ state = NewClaimState("motor")
    /\ db = NoRow
    /\ pc = "reply"
    /\ op = "init"
    /\ io = NoIO

\* a validation pass parses its reply
PValidationParse ==
    /\ pc = "reply"
    /\ io' = [kind |-> "parse", parser |-> "_safe_json_loads",
              text |-> facts.text, result |-> safe_json_loads(facts.text)]
    /\ op' = "llm_validation_agent"
    /\ pc' = "parsed"
    /\ UNCHANGED <<facts, state, db>>

\* the fraud scorer parses its reply
PFraudParse ==
    /\ pc = "reply"
    /\ io' = [kind |-> "parse", parser |-> "safe_json_parse",
              text |-> facts.text, result |-> safe_json_parse(facts.text)]
    /\ op' = "fraud_agent"
    /\ pc' = "parsed"
    /\ UNCHANGED <<facts, state, db>>

NextParse == PValidationParse \/ PFraudParse

SpecParse == InitParse /\ [][NextParse]_vars

\* the brace depth of a text after its first n tokens; a closing brace
\* outside every group does not count
RECURSIVE BraceDepth(_, _)
BraceDepth(s, n) ==
    IF n = 0 THEN 0
    ELSE IF s[n] = "{" THEN BraceDepth(s, n - 1) + 1
    ELSE IF s[n] = "}" /\ BraceDepth(s, n - 1) > 0 THEN BraceDepth(s, n - 1) - 1
    ELSE BraceDepth(s, n - 1)

\* the top-level JSON objects a text contains, as <<first, last>> token
\* positions: balanced groups that open outside every other group and
\* that json.loads reads
ObjectSpans(s) ==
    {p \in (1..Len(s)) \X (1..Len(s)) :
        /\ p[1] < p[2]
        /\ BraceDepth(s, p[1] - 1) = 0
        /\ JsonIsDict(SubSeq(s, p[1], p[2]))}

\* the first of them: the one that starts earliest
FirstObject(s) ==
    LET p == CHOOSE q \in ObjectSpans(s) : \A r \in ObjectSpans(s) : q[1] <= r[1]
    IN  SubSeq(s, p[1], p[2])

\* C26: a parser applied to a text that contains a JSON object returns the
\* first such object of the text, whatever surrounds or follows it, and it
\* returns the fallback only for a text that contains no object.
C26_FirstObjectReturned ==
    (io.kind = "parse") =>
        IF ObjectSpans(io.text) # {}
        THEN io.result = ParsedObject(FirstObject(io.text))
        ELSE io.result = ParseFallback

(***************************************************************************)
(* Further properties of the validator (SpecValidate)                      *)
(***************************************************************************)
\* C27: every ValidationResult that llm_validation_agent returns has
\* recommendation APPROVE exactly when docs_ok is true, and claim_validated
\* equals docs_ok; so a recommendation of REJECT or NEED_MORE_DOCUMENTS
\* comes with docs_ok false.
C27_ApproveIffDocsOk ==
    Validated =>
        /\ (Merged.recommendation = "APPROVE") <=> Merged.docs_ok
        /\ state.claim_validated = Merged.docs_ok
        /\ Merged.recommendation \in {"REJECT", "NEED_MORE_DOCUMENTS"}
              => ~Merged.docs_ok

\* a complete motor claim whose merged recommendation of the two sources was
\* not APPROVE: the closing override made it APPROVE
C27_Witness ==
    /\ MotorValidated
    /\ Merged.docs_ok
    /\ state.claim_validated
    /\ Merged.recommendation = "APPROVE"
    /\ MergeRecommendation(io.pre.recommendation, ParsedFull.recommendation)
          \in {"REJECT", "NEED_MORE_DOCUMENTS"}

(***************************************************************************)
(* Runs of InvestigatorAssignmentTool against the shared tables            *)
(* (SpecAssign).  Every statement of a run is a transaction of its own on  *)
(* a connection of its own, so the statements of runs served by different  *)
(* server processes interleave.                                            *)
(***************************************************************************)
MaxRuns == 2

MaxInvestigators == 2

Runs == 1..MaxRuns

Investigators == 1..MaxInvestigators

ClaimIds == {"tx1", "tx2"}

\* the columns of a claims row that an assignment run reads and writes
ClaimRowProfiles ==
    {[claim_type |-> "motor", fraud_checked |-> TRUE, fraud_score |-> Some(900)],
     [claim_type |-> "motor", fraud_checked |-> FALSE, fraud_score |-> Some(900)],
     [claim_type |-> "motor", fraud_checked |-> TRUE, fraud_score |-> Some(650)],
     [claim_type |-> "motor", fraud_checked |-> TRUE, fraud_score |-> None],
     [claim_type |-> "health", fraud_checked |-> TRUE, fraud_score |-> Some(900)]}

ClaimRowOf(profile) ==
    [claim_type |-> profile.claim_type, fraud_checked |-> profile.fraud_checked,
     fraud_score |-> profile.fraud_score, investigator_id |-> None,
     status |-> "REGISTERED"]

\* the rows of the investigators table: all active, all for MOTOR claims,
\* created in the order of their ids
InvestigatorRows ==
    [Investigators -> {[current_load |-> l, max_cases |-> MaxCases] : l \in 0..MaxCases}]

\* the rows get_available_investigator's query selects from
AvailableInvestigators(investigators, claim_type) ==
    {i \in Investigators :
        /\ Upper(claim_type) = "MOTOR"
        /\ investigators[i].current_load < investigators[i].max_cases}

\* ORDER BY current_load ASC, created_at ASC LIMIT 1
LeastLoadedInvestigator(investigators, claim_type) ==
    LET avail == AvailableInvestigators(investigators, claim_type)
    IN  IF avail = {} THEN None
        ELSE Some(CHOOSE i \in avail : \A j \in avail :
                     \/ investigators[i].current_load < investigators[j].current_load
                     \/ /\ investigators[i].current_load = investigators[j].current_load
                        /\ i <= j)

\* increment_investigator_load
increment_investigator_load(investigators, i) ==
    [investigators EXCEPT ![i].current_load = @ + 1]

\* steps 1 and 2 of investigator_agent let the run go on to the selection
InvestigatorEscalates(st) ==
    /\ st.fraud_checked
    /\ st.fraud_score # None
    /\ Val(st.fraud_score) >= FRAUD_ESCALATION

RunsInFlight(c) ==
    {r \in Runs : facts.run_claim[r] = c /\ pc[r] \notin {"idle", "done"}}

RunsStarted(c) == {r \in Runs : facts.run_claim[r] = c /\ pc[r] # "idle"}

InitAssign ==
    /\ facts \in {[run_claim |-> f] : f \in [Runs -> ClaimIds]}
    /\ db \in {[investigators |-> inv,
                claims |-> [c \in ClaimIds |-> ClaimRowOf(p[c])],
                assignments |-> [c \in ClaimIds |-> 0]] :
                  inv \in InvestigatorRows, p \in [ClaimIds -> ClaimRowProfiles]}
    /\ state = [r \in Runs |-> [fraud_checked |-> FALSE, fraud_score |-> None,
                                claim_type |-> "", selected |-> None,
                                assignment |-> None]]
    /\ pc = [r \in Runs |-> "idle"]
    /\ op = "init"
    /\ io = [kind |-> "assign", same_claim |-> FALSE, overlapped |-> FALSE,
             increments |-> [c \in ClaimIds |-> 0]]

\* fetch_claim_and_docs and build_state_from_db: the run reads its claim
AFetch(r) ==
    /\ pc[r] = "idle"
    /\ \E c \in {facts.run_claim[r]} :
          /\ state' = [state EXCEPT ![r] =
                          [fraud_checked |-> db.claims[c].fraud_checked,
                           fraud_score |-> db.claims[c].fraud_score,
                           claim_type |-> LowerStrip(db.claims[c].claim_type),
                           selected |-> None, assignment |-> None]]
          /\ io' = [io EXCEPT !.same_claim = @ \/ RunsStarted(c) # {},
                              !.overlapped = @ \/ RunsInFlight(c) # {}]
    /\ pc' = [pc EXCEPT ![r] = "fetched"]
    /\ op' = "build_state_from_db"
    /\ UNCHANGED <<facts, db>>

\* investigator_agent up to get_available_investigator
ASelect(r) ==
    /\ pc[r] = "fetched"
    /\ IF InvestigatorEscalates(state[r])
          /\ LeastLoadedInvestigator(db.investigators, state[r].claim_type) # None
       THEN /\ state' = [state EXCEPT ![r].selected =
                           LeastLoadedInvestigator(db.investigators, state[r].claim_type)]
            /\ pc' = [pc EXCEPT ![r] = "selected"]
       ELSE /\ state' = state
            /\ pc' = [pc EXCEPT ![r] = "returned"]
    /\ op' = "get_available_investigator"
    /\ UNCHANGED <<facts, db, io>>

\* investigator_agent: increment_investigator_load
AIncrement(r) ==
    /\ pc[r] = "selected"
    /\ db' = [db EXCEPT !.investigators =
                 increment_investigator_load(@, Val(state[r].selected))]
    /\ io' = [io EXCEPT !.increments[facts.run_claim[r]] = @ + 1]
    /\ pc' = [pc EXCEPT ![r] = "incremented"]
    /\ op' = "increment_investigator_load"
    /\ UNCHANGED <<facts, state>>

\* investigator_agent: record_assignment, then the assignment on the state
ARecord(r) ==
    /\ pc[r] = "incremented"
    /\ db' = [db EXCEPT !.assignments[facts.run_claim[r]] = @ + 1,
                        !.claims[facts.run_claim[r]].investigator_id =
                            state[r].selected]
    /\ state' = [state EXCEPT ![r].assignment = state[r].selected]
    /\ pc' = [pc EXCEPT ![r] = "returned"]
    /\ op' = "record_assignment"
    /\ UNCHANGED <<facts, io>>

\* InvestigatorAssignmentTool: the closing update_claim_fields
AUpdate(r) ==
    /\ pc[r] = "returned"
    /\ db' = [db EXCEPT !.claims[facts.run_claim[r]] =
                 [@ EXCEPT !.investigator_id = state[r].assignment,
                           !.status = IF state[r].assignment # None
                                      THEN "UNDER_INVESTIGATION"
                                      ELSE "NO_INVESTIGATION_REQUIRED"]]
    /\ pc' = [pc EXCEPT ![r] = "done"]
    /\ op' = "InvestigatorAssignmentTool"
    /\ UNCHANGED <<facts, state, io>>

NextAssign ==
    \E r \in Runs :
        AFetch(r) \/ ASelect(r) \/ AIncrement(r) \/ ARecord(r) \/ AUpdate(r)

SpecAssign == InitAssign /\ [][NextAssign]_vars

\* C28: while the runs of investigator_agent are all for different claims,
\* however their statements interleave, no investigator's current_load
\* exceeds its max_cases.
C28_LoadWithinMaxCases ==
    ~io.same_claim =>
        \A i \in Investigators :
            db.investigators[i].current_load <= db.investigators[i].max_cases

\* C29: runs of the assignment for one claim that follow one another, each
\* starting after the one before has ended, record at most one investigator
\* assignment for the claim and increment investigator load at most once.
C29_AssignedOnce ==
    ~io.overlapped =>
        \A c \in ClaimIds : db.assignments[c] <= 1 /\ io.increments[c] <= 1

(***************************************************************************)
(* A claim driven by ManagerAgent.run (SpecDrive): run asks                 *)
(* decide_next_step; the agent it names is executed and run is asked       *)
(* again, and on 'end' run calls finalize_claim itself and the drive stops.*)
(* The claim is new, or resumed from the row that ManagerProcessingTool    *)
(* and a manual override have left in storage.                             *)
(***************************************************************************)
\* decide_next_step
decide_next_step(st) ==
    IF ~st.claim_registered THEN "registration_agent"
    ELSE IF ~st.claim_validated THEN "validation_agent"
    ELSE IF ~st.fraud_checked THEN "fraud_agent"
    ELSE IF ~st.claim_decision_made /\ st.final_decision = NoStr THEN "decision_agent"
    ELSE IF st.final_decision = "APPROVED" /\ ~st.payment_processed THEN "payment_agent"
    ELSE IF st.payment_processed /\ ~st.claim_closed THEN "closure_agent"
    ELSE "end"

\* the payment and closure steps the router names: each sets its flag
payment_agent(st) == [st EXCEPT !.payment_processed = TRUE]

closure_agent(st) == [st EXCEPT !.claim_closed = TRUE]

\* a new ClaimState with the two flags the router reads after the decision
DrivenClaimState(claim_type) ==
    NewClaimState(claim_type) @@
        [payment_processed |-> FALSE, claim_closed |-> FALSE]

InitDrive ==
    /\ facts \in FactsR
    /\ \/ /\ state = DrivenClaimState(facts.claim_type)
          /\ db = NoRow
       \/ \E w \in {{}, {W_NAME}}, fs \in {100, 900}, d \in OverrideInputs :
             \E processed \in {finalize_claim(
                     [NewClaimState("motor") EXCEPT
                         !.claim_registered = TRUE,
                         !.validation = Some(ValidationResult({}, w, {}, TRUE, <<>>, "APPROVE")),
                         !.claim_validated = TRUE,
                         !.fraud_checked = TRUE,
                         !.fraud_score = Some(fs),
                         !.fraud_decision = FinalizeFraudDecision(fs)])} :
                /\ db = ManagerDecisionTool(
                            ProcessingColumns(
                                ValidationColumns(NewRow("motor"), processed),
                                processed), d)
                /\ state = build_state_from_db(db) @@
                              [payment_processed |-> FALSE, claim_closed |-> FALSE]
    /\ pc = "drive"
    /\ op = "init"
    /\ io = [kind |-> "drive", next |-> "none"]

Routed(step) == pc = "drive" /\ decide_next_step(state) = step

DRegistration ==
    /\ Routed("registration_agent")
    /\ state' = registration_agent(state)
    /\ db' = upsert_claim_registration(db, state.claim_type)
    /\ op' = "registration_agent"
    /\ io' = [kind |-> "drive", next |-> "registration_agent"]
    /\ UNCHANGED <<facts, pc>>

DValidation ==
    /\ Routed("validation_agent")
    /\ \E t \in TextRepliesR \cup {MalformedTextReply}, r \in FullRepliesR :
          IF ValidationRaises(state, t)
          THEN /\ state' = [state EXCEPT !.claim_type = LowerStrip(state.claim_type)]
               /\ pc' = "raised"
          ELSE /\ state' = llm_validation_agent(state, facts, t, r)
               /\ pc' = pc
    /\ op' = "llm_validation_agent"
    /\ io' = [kind |-> "drive", next |-> "validation_agent"]
    /\ UNCHANGED <<facts, db>>

DFraud ==
    /\ Routed("fraud_agent")
    /\ \E reply \in FraudRepliesR : state' = fraud_agent(state, facts, reply)
    /\ op' = "fraud_agent"
    /\ io' = [kind |-> "drive", next |-> "fraud_agent"]
    /\ UNCHANGED <<facts, db, pc>>

DDecision ==
    /\ Routed("decision_agent")
    /\ state' = finalize_claim(state)
    /\ db' = PersistDecision(db, state, state')
    /\ op' = "finalize_claim"
    /\ io' = [kind |-> "drive", next |-> "decision_agent"]
    /\ UNCHANGED <<facts, pc>>

DPayment ==
    /\ Routed("payment_agent")
    /\ state' = payment_agent(state)
    /\ op' = "payment_agent"
    /\ io' = [kind |-> "drive", next |-> "payment_agent"]
    /\ UNCHANGED <<facts, db, pc>>

DClosure ==
    /\ Routed("closure_agent")
    /\ state' = closure_agent(state)
    /\ op' = "closure_agent"
    /\ io' = [kind |-> "drive", next |-> "closure_agent"]
    /\ UNCHANGED <<facts, db, pc>>

\* ManagerAgent.run when the router answers 'end': finalize_claim is called
\* on the state, its decision is written to the row, and the returned
\* next_step ends the drive
DEnd ==
    /\ Routed("end")
    /\ state' = finalize_claim(state)
    /\ db' = PersistDecision(db, state, state')
    /\ pc' = "end"
    /\ op' = "run"
    /\ io' = [kind |-> "drive", next |-> "end",
              final_decision |-> state'.final_decision]
    /\ UNCHANGED facts

NextDrive ==
    \/ DRegistration
    \/ DValidation
    \/ DFraud
    \/ DDecision
    \/ DPayment
    \/ DClosure
    \/ DEnd

SpecDrive == InitDrive /\ [][NextDrive]_vars

\* the driver goes on as long as the router names an agent
SpecDriveFair == SpecDrive /\ WF_vars(NextDrive)

\* C30: a claim driven by the agents that decide_next_step names reaches a
\* state in which decide_next_step returns 'end', and decide_next_step
\* returns 'payment_agent' only while final_decision is APPROVED.
C30_DriveEnds ==
    /\ [](decide_next_step(state) = "payment_agent"
            => state.final_decision = "APPROVED")
    /\ <>(decide_next_step(state) = "end")

====
